---------------------------- MODULE Spec2Model ----------------------------
(***************************************************************************)
(* wakatime-sync-go: the reconciliation engine (internal/sync), the local   *)
(* store (internal/database) and the trigger handler (internal/api), as a   *)
(* state machine.                                                           *)
(*                                                                          *)
(* A state holds the COMMITTED content of the SQLite tables (what a reader  *)
(* on another connection sees), the upstream service's content, the wall    *)
(* clock, and the position and locals of every goroutine that runs a sync.  *)
(* One step is one upstream call or one store statement/transaction: a      *)
(* db.Exec outside a transaction commits by itself, and a Begin..Commit     *)
(* block commits all of its rows or, on an error, none of them.             *)
(***************************************************************************)
EXTENDS Integers, Sequences, FiniteSets, TLC

(***************************************************************************)
(* Bounds of the model.                                                     *)
(***************************************************************************)
\* instants per calendar day: the clock has a time of day
TicksPerDay == 2
\* how far the wall clock advances during a run
MaxTicks == 1
\* largest day count a trigger request asks for
MaxDays == 2
\* how many times the upstream content of the days changes in total
MaxChanges == 1
\* how many times the schedule fires after the startup sync
MaxFires == 1
\* how many trigger requests and range calls are served
MaxCalls == 1
\* how many upstream calls and store statements fail in total
MaxFailures == 1

\* the calendar day of the clock in the initial state, and the earliest day of the model
Day0 == MaxDays + 1
FirstDay == Day0 - MaxDays
Clock0 == Day0 * TicksPerDay
Ticks == (FirstDay * TicksPerDay) .. (Clock0 + MaxTicks)

(***************************************************************************)
(* time.Time values are instants (ticks).  Format("2006-01-02") keeps the   *)
(* calendar day and drops the time of day; AddDate(0, 0, n) moves n days    *)
(* and keeps the time of day; After compares instants.                      *)
(***************************************************************************)
Format(t) == t \div TicksPerDay
AddDate(t, n) == t + n * TicksPerDay
After(t, u) == t > u

Days == FirstDay .. Format(Clock0 + MaxTicks)

Procs == {"sched", "trig"}
NoErr == "nil"
UpstreamError == "upstream"
PersistenceError == "store"

(***************************************************************************)
(* The upstream service.  The content of a day is one of a few payloads,    *)
(* selected by a version that grows when the user's activity of that day    *)
(* reaches the service: no data at all, one duration and one heartbeat,     *)
(* then more of both; versions past the second revise a row and keep the    *)
(* counts.                                                                  *)
(***************************************************************************)
Item(n, s) == [Name |-> n, TotalSeconds |-> s]

NoItems == << >>

RemoteSummary(v) ==
  IF v = 0 THEN << >>
  ELSE IF v = 1
  THEN << [GrandTotal |-> 5000,
           Categories |-> << Item("Coding", 5000) >>,
           Languages |-> << Item("Go", 5000) >>,
           Editors |-> NoItems, OperatingSystems |-> NoItems,
           Projects |-> << Item("a", 5000) >>,
           Dependencies |-> NoItems, Machines |-> NoItems] >>
  ELSE << [GrandTotal |-> 7200 + (v - 2),
           Categories |-> << Item("Coding", 7200 + (v - 2)) >>,
           Languages |-> << Item("Go", 5000), Item("SQL", 2200 + (v - 2)) >>,
           Editors |-> << Item("vim", 7200 + (v - 2)) >>,
           OperatingSystems |-> << Item("linux", 7200 + (v - 2)) >>,
           Projects |-> << Item("a", 5000), Item("b", 2200 + (v - 2)) >>,
           Dependencies |-> << Item("sqlite", 100) >>,
           Machines |-> << Item("host", 7200 + (v - 2)) >>] >>

RemoteDurations(v) ==
  IF v = 0 THEN << >>
  ELSE IF v = 1 THEN << [Project |-> "a", Time |-> 1] >>
  ELSE << [Project |-> "a", Time |-> v - 1], [Project |-> "", Time |-> 5],
          [Project |-> "b", Time |-> 7] >>

RemoteDurationsWithProject(v, project) ==
  IF project = "a" THEN << [Entity |-> "a.go", Time |-> IF v < 2 THEN 1 ELSE v - 1] >>
  ELSE IF project = "b" /\ v >= 2 THEN << [Entity |-> "b.sql", Time |-> 7] >>
  ELSE << >>

RemoteHeartbeats(v) ==
  IF v = 0 THEN << >>
  ELSE IF v = 1 THEN << [Entity |-> "a.go", Time |-> 1] >>
  ELSE << [Entity |-> "a.go", Time |-> v - 1], [Entity |-> "b.sql", Time |-> 7] >>

RemoteProjects ==
  << [ID |-> "u1", Name |-> "a", Repository |-> "git@host:a", Badge |-> "badge",
      Color |-> "#fff", HasPublicURL |-> TRUE,
      LastHeartbeatAt |-> "2024-01-02T03:04:05Z",
      FirstHeartbeatAt |-> "2024-01-02T03:04:05Z"],
     [ID |-> "u2", Name |-> "b", Repository |-> "", Badge |-> "", Color |-> "",
      HasPublicURL |-> FALSE, LastHeartbeatAt |-> "", FirstHeartbeatAt |-> ""] >>

\* the payload version each day starts with: some days have no data yet
InitVersion(d) == (d + Day0) % 2

VARIABLES
  clock,              \* time.Now()
  version,            \* upstream: the payload version of each day
  durations,          \* table durations: day -> rows in insertion order
  project_durations,  \* table project_durations
  heartbeats,         \* table heartbeats
  day_summaries,      \* table day_summaries: rows [day, total_seconds]
  day_stats,          \* table day_stats: rows [day, type, name, total_seconds]
  sync_log,           \* table sync_log: rows [day, total_seconds, status]
  projects,           \* table projects: rows [uuid, name, repository, ...]
  proc,               \* per goroutine: position and the locals of the code
  obs,                \* per goroutine: what happened in its current run (history)
  settled,            \* per day: the rows left by an undisturbed, fault-free SyncDay
  fires,              \* schedule firings so far
  calls,              \* trigger requests and range calls so far
  failures,           \* failed upstream calls and store statements so far
  syncer              \* the Syncer: its cron field, and whether Stop has returned

store == << durations, project_durations, heartbeats, day_summaries, day_stats,
            sync_log, projects >>
vars == << clock, version, durations, project_durations, heartbeats, day_summaries,
           day_stats, sync_log, projects, proc, obs, settled, fires, calls,
           failures, syncer >>


(***************************************************************************)
(* The local store.  Every operator is one statement or one transaction of *)
(* internal/database, as a function from the table to the table.           *)
(***************************************************************************)
Map(f(_), s) == [i \in 1 .. Len(s) |-> f(s[i])]

RECURSIVE Fold(_, _, _)
Fold(f(_, _), acc, s) == IF s = << >> THEN acc ELSE Fold(f, f(acc, Head(s)), Tail(s))

\* DELETE FROM durations WHERE day = ?
DeleteDurationsByDay(t, day) == [t EXCEPT ![Format(day)] = << >>]

DurationColumns(r) == [project |-> r.Project, start_time |-> r.StartTime]

\* one transaction: INSERT every row, then Commit
InsertDurations(t, rows) ==
  [d \in DOMAIN t |->
     t[d] \o Map(DurationColumns, SelectSeq(rows, LAMBDA r : Format(r.Day) = d))]

\* SELECT COUNT(*) FROM durations WHERE day = ?
CountDurationsByDay(t, day) == Len(t[Format(day)])

DeleteProjectDurationsByDay(t, day) == [t EXCEPT ![Format(day)] = << >>]

ProjectDurationColumns(r) ==
  [project |-> r.Project, entity |-> r.Entity, start_time |-> r.StartTime]

InsertProjectDurations(t, rows) ==
  [d \in DOMAIN t |->
     t[d] \o Map(ProjectDurationColumns, SelectSeq(rows, LAMBDA r : Format(r.Day) = d))]

DeleteHeartbeatsByDay(t, day) == [t EXCEPT ![Format(day)] = << >>]

HeartbeatColumns(r) == [entity |-> r.Entity, time |-> r.Time]

InsertHeartbeats(t, rows) ==
  [d \in DOMAIN t |->
     t[d] \o Map(HeartbeatColumns, SelectSeq(rows, LAMBDA r : Format(r.Day) = d))]

CountHeartbeatsByDay(t, day) == Len(t[Format(day)])

\* INSERT ... ON CONFLICT(day) DO UPDATE SET total_seconds
UpsertDaySummary(t, day, totalSeconds) ==
  {r \in t : r.day # Format(day)}
    \cup {[day |-> Format(day), total_seconds |-> totalSeconds]}

\* the rows QueryRow scans: none is sql.ErrNoRows, the nil summary
GetDaySummary(t, day) == {r \in t : r.day = Format(day)}

\* a variant without the WHERE clause
DeleteDayStatsByDay_AllDays(t, day) == {}

\* DELETE FROM day_stats WHERE day = ?
DeleteDayStatsByDay(t, day) == {r \in t : r.day # Format(day)}

UpsertDayStat(t, s) ==
  {r \in t : ~(r.day = Format(s.Day) /\ r.type = s.Type /\ r.name = s.Name)}
    \cup {[day |-> Format(s.Day), type |-> s.Type, name |-> s.Name,
           total_seconds |-> s.TotalSeconds]}

\* one transaction: INSERT ... ON CONFLICT(day, type, name) DO UPDATE, row by row
InsertDayStats(t, stats) == Fold(UpsertDayStat, t, stats)

\* a variant without the conflict clause, on a table without the unique key
RecordSync_Insert(t, day, totalSeconds, status) ==
  t \cup {[day |-> Format(day), total_seconds |-> totalSeconds, status |-> status]}

\* a variant that keeps the row a day already has: INSERT OR IGNORE
RecordSync_InsertOrIgnore(t, day, totalSeconds, status) ==
  IF \E r \in t : r.day = Format(day) THEN t
  ELSE t \cup {[day |-> Format(day), total_seconds |-> totalSeconds, status |-> status]}

\* INSERT ... ON CONFLICT(day) DO UPDATE SET synced_at, total_seconds, status
RecordSync(t, day, totalSeconds, status) ==
  {r \in t : r.day # Format(day)}
    \cup {[day |-> Format(day), total_seconds |-> totalSeconds, status |-> status]}

\* a variant without the WHERE clause: the latest day that has an entry
GetLastSyncedDay_AnyStatus(t) ==
  LET any == {r.day : r \in t}
  IN  IF any = {} THEN << >> ELSE << CHOOSE d \in any : \A e \in any : e <= d >>

\* SELECT day FROM sync_log WHERE status = 'success' ORDER BY day DESC LIMIT 1
GetLastSyncedDay(t) ==
  LET ok == {r.day : r \in {x \in t : x.status = "success"}}
  IN  IF ok = {} THEN << >> ELSE << CHOOSE d \in ok : \A e \in ok : e <= d >>

IsDaySynced(t, day) ==
  Cardinality({r \in t : r.day = Format(day) /\ r.status = "success"}) > 0

\* INSERT ... ON CONFLICT(uuid) DO UPDATE SET every column
UpsertProject(t, p) ==
  {r \in t : r.uuid # p.UUID}
    \cup {[uuid |-> p.UUID, name |-> p.Name, repository |-> p.Repository,
           badge |-> p.Badge, color |-> p.Color, has_public_url |-> p.HasPublicURL,
           last_heartbeat_at |-> p.LastHeartbeatAt,
           first_heartbeat_at |-> p.FirstHeartbeatAt]}

(***************************************************************************)
(* The rows the engine builds from the upstream payloads.                  *)
(***************************************************************************)
StatsOfType(day, type, items) ==
  [i \in 1 .. Len(items) |->
     [Day |-> day, Type |-> type, Name |-> items[i].Name,
      TotalSeconds |-> items[i].TotalSeconds]]

\* a variant that leaves the machines out
CollectStats_NoMachines(day, summary) ==
  StatsOfType(day, "category", summary.Categories)
    \o StatsOfType(day, "language", summary.Languages)
    \o StatsOfType(day, "editor", summary.Editors)
    \o StatsOfType(day, "os", summary.OperatingSystems)
    \o StatsOfType(day, "project", summary.Projects)
    \o StatsOfType(day, "dependency", summary.Dependencies)

\* syncSummary's "collect all stats", in the code's order
CollectStats(day, summary) ==
  StatsOfType(day, "category", summary.Categories)
    \o StatsOfType(day, "language", summary.Languages)
    \o StatsOfType(day, "editor", summary.Editors)
    \o StatsOfType(day, "os", summary.OperatingSystems)
    \o StatsOfType(day, "project", summary.Projects)
    \o StatsOfType(day, "dependency", summary.Dependencies)
    \o StatsOfType(day, "machine", summary.Machines)

NewDurations(day, data) ==
  [i \in 1 .. Len(data) |->
     [Day |-> day, Project |-> data[i].Project, StartTime |-> data[i].Time]]

\* the keys of syncDurations' projects map
ProjectNames(data) == {data[i].Project : i \in 1 .. Len(data)} \ {""}

NewProjectDurations(day, project, data) ==
  [i \in 1 .. Len(data) |->
     [Day |-> day, Project |-> project, Entity |-> data[i].Entity,
      StartTime |-> data[i].Time]]

NewHeartbeats(day, data) ==
  [i \in 1 .. Len(data) |->
     [Day |-> day, Entity |-> data[i].Entity, Time |-> data[i].Time]]

\* time.Parse(time.RFC3339, s) with its error dropped: the zero time on failure
ParseRFC3339(s) == IF s = "2024-01-02T03:04:05Z" THEN 1704164645 ELSE 0

NewProject(p) ==
  [UUID |-> p.ID, Name |-> p.Name, Repository |-> p.Repository, Badge |-> p.Badge,
   Color |-> p.Color, HasPublicURL |-> p.HasPublicURL,
   LastHeartbeatAt |-> IF p.LastHeartbeatAt # "" THEN ParseRFC3339(p.LastHeartbeatAt)
                       ELSE 0,
   FirstHeartbeatAt |-> IF p.FirstHeartbeatAt # "" THEN ParseRFC3339(p.FirstHeartbeatAt)
                        ELSE 0]

\* variants of the staleness checks that also replace on equal counts
DurationsUpToDate_Strict(existingCount, n) == existingCount > n
HeartbeatsUpToDate_Strict(existingCount, n) == existingCount > n

\* the staleness checks: "existingCount >= len(resp.Data)"
DurationsUpToDate(existingCount, n) == existingCount >= n
HeartbeatsUpToDate(existingCount, n) == existingCount >= n
\* a variant with the comparison of the totals inverted
SummaryUpToDate_Inverted(existing, totalSeconds) ==
  \E r \in existing : r.total_seconds # totalSeconds

\* "existing != nil && existing.TotalSeconds == totalSeconds"
SummaryUpToDate(existing, totalSeconds) ==
  \E r \in existing : r.total_seconds = totalSeconds


(***************************************************************************)
(* Goroutines.  "sched" is StartScheduler and the cron job it arms; "trig" *)
(* is the goroutine a trigger request starts, or a caller of SyncDateRange.*)
(***************************************************************************)
SyncDayPcs ==
  {"GetSummaries", "GetDaySummary", "UpsertDaySummary", "DeleteDayStatsByDay",
   "InsertDayStats", "RecordFailed", "GetDurations", "CountDurationsByDay",
   "DeleteDurationsByDay", "InsertDurations", "GetDurationsWithProject",
   "DeleteProjectDurationsByDay", "InsertProjectDurations", "GetHeartbeats",
   "CountHeartbeatsByDay", "DeleteHeartbeatsByDay", "InsertHeartbeats",
   "RecordSuccess"}

IdleProc ==
  [pc |-> "idle", job |-> "none", days |-> 0, start |-> 0, d |-> 0, end |-> 0,
   day |-> 0,
   totalSeconds |-> 0, resp |-> << >>, existingCount |-> 0, projects |-> {},
   projectDurations |-> << >>, err |-> NoErr, i |-> 0]

FreshObs ==
  [faults |-> {}, ufail |-> {}, ran |-> {}, skipped |-> {}, before |-> << >>,
   called |-> << >>, pure |-> FALSE]

InSyncDay(p) == proc[p].pc \in SyncDayPcs
DayOf(p) == Format(proc[p].day)

\* the rows of day d that idempotence is about
DayRows(d) ==
  [durations |-> durations[d], heartbeats |-> heartbeats[d],
   day_stats |-> {r \in day_stats : r.day = d}]

RECURSIVE Sum(_, _)
Sum(f, S) == IF S = {} THEN 0
             ELSE LET x == CHOOSE y \in S : TRUE IN f[x] + Sum(f, S \ {x})

Init ==
  /\ clock = Clock0
  /\ version = [d \in Days |-> InitVersion(d)]
  /\ durations = [d \in Days |-> << >>]
  /\ project_durations = [d \in Days |-> << >>]
  /\ heartbeats = [d \in Days |-> << >>]
  /\ day_summaries = {}
  /\ day_stats = {}
  /\ sync_log = {}
  /\ projects = {}
  /\ proc = [p \in Procs |->
               IF p = "sched" THEN [IdleProc EXCEPT !.pc = "StartScheduler"]
               ELSE IdleProc]
  /\ obs = [p \in Procs |-> FreshObs]
  /\ settled = [d \in Days |-> << >>]
  /\ fires = 0
  /\ calls = 0
  /\ failures = 0
  /\ syncer = [cron |-> "nil", stopped |-> FALSE]

(***************************************************************************)
(* The environment: time passes, and the upstream content of a day grows.  *)
(* The clock is seen only when it is read, so it moves at its reads.       *)
(***************************************************************************)
\* time.Now() returns t: an instant not before the last one read
Now(t) ==
  /\ t \in clock .. (Clock0 + MaxTicks)
  /\ clock' = t

UpstreamAdvance(d) ==
  /\ Sum([e \in Days |-> version[e] - InitVersion(e)], Days) < MaxChanges
  /\ version' = [version EXCEPT ![d] = @ + 1]
  /\ settled' = [settled EXCEPT ![d] = << >>]
  /\ obs' = [p \in Procs |->
               IF InSyncDay(p) /\ DayOf(p) = d THEN [obs[p] EXCEPT !.pure = FALSE]
               ELSE obs[p]]
  /\ UNCHANGED << syncer, clock, store, proc, fires, calls, failures >>

(***************************************************************************)
(* Entering and leaving SyncDay.                                           *)
(***************************************************************************)
\* the call s.SyncDay(day) by p, whose other locals are base
CallSyncDay(p, base, day, called) ==
  /\ proc' = [proc EXCEPT ![p] = [base EXCEPT !.pc = "GetSummaries", !.day = day,
                                              !.err = NoErr]]
  /\ obs' = [q \in Procs |->
               IF q = p
               THEN [FreshObs EXCEPT
                       !.called = Append(called, Format(day)),
                       !.pure = ~ \E r \in Procs \ {p} :
                                     InSyncDay(r) /\ DayOf(r) = Format(day)]
               ELSE IF InSyncDay(q) /\ DayOf(q) = Format(day)
               THEN [obs[q] EXCEPT !.pure = FALSE]
               ELSE obs[q]]

\* SyncDay returns err: its locals go out of scope
Return(r, e) ==
  [r EXCEPT !.pc = "SyncDayReturned", !.err = e, !.resp = << >>,
            !.existingCount = 0, !.projects = {}, !.projectDurations = << >>]

\* a store statement of p fails (a PersistenceError)
StoreFails(p, op) ==
  /\ failures < MaxFailures
  /\ failures' = failures + 1
  /\ obs' = [obs EXCEPT ![p].faults = @ \cup {op}, ![p].pure = FALSE]

\* an upstream call of p fails (an UpstreamError)
UpstreamFails(p, call) ==
  /\ failures < MaxFailures
  /\ failures' = failures + 1
  /\ obs' = [obs EXCEPT ![p].ufail = @ \cup {call}, ![p].pure = FALSE,
                        ![p].ran = @ \cup ({call} \cap {"durations", "heartbeats"})]

\* the statement or call succeeds
Succeeds(o) ==
  /\ failures' = failures
  /\ obs' = o

\* a variant that logs the error and goes on to syncDurations
SummaryFailed_GoesOn(r, e) ==
  [r EXCEPT !.pc = "GetDurations", !.totalSeconds = 0, !.resp = << >>]

\* syncSummary returned an error: SyncDay goes on to record "failed"
SummaryFailed(r, e) == [r EXCEPT !.pc = "RecordFailed", !.err = e, !.resp = << >>]
\* syncSummary returned (total, nil): SyncDay goes on to syncDurations
SummaryDone(r, total) ==
  [r EXCEPT !.pc = "GetDurations", !.totalSeconds = total, !.resp = << >>]
\* a variant that takes an empty summary response for a failure
SummaryEmpty_Failed(r) == SummaryFailed(r, UpstreamError)

\* syncSummary found no data in the response: "return 0, nil"
SummaryEmpty(r) == SummaryDone(r, 0)

\* syncDurations returned nil: SyncDay goes on to syncHeartbeats
DurationsDone(r) ==
  [r EXCEPT !.pc = "GetHeartbeats", !.resp = << >>, !.existingCount = 0,
            !.projects = {}, !.projectDurations = << >>]
\* a variant in which SyncDay gives up on an error of syncDurations
DurationsFailed_Fatal(r, e) == SummaryFailed(r, e)

\* a variant in which a failed syncDurations is tried again
DurationsFailed_Retry(r, e) == [DurationsDone(r) EXCEPT !.pc = "GetDurations"]

\* syncDurations returned the error e: SyncDay logs it and goes on
DurationsFailed(r, e) == DurationsDone(r)
\* syncHeartbeats returned nil: SyncDay goes on to record the success
HeartbeatsDone(r) ==
  [r EXCEPT !.pc = "RecordSuccess", !.resp = << >>, !.existingCount = 0]
\* syncHeartbeats returned the error e: SyncDay logs it and goes on
HeartbeatsFailed(r, e) == HeartbeatsDone(r)


(***************************************************************************)
(* SyncDay, step by step.  Every upstream call may fail (transport error,  *)
(* non-200 status, timeout) and every store statement may fail.            *)
(***************************************************************************)
\* syncSummary: client.GetSummaries(day, day), and the empty-data return
GetSummaries(p) ==
  /\ proc[p].pc = "GetSummaries"
  /\ \/ /\ proc' = [proc EXCEPT ![p] = SummaryFailed(@, UpstreamError)]
        /\ UpstreamFails(p, "summary")
     \/ /\ LET resp == RemoteSummary(version[DayOf(p)])
           IN  proc' = [proc EXCEPT ![p] =
                          IF Len(resp) = 0 THEN SummaryEmpty(@)
                          ELSE [@ EXCEPT !.pc = "GetDaySummary", !.resp = resp]]
        /\ Succeeds(obs)
  /\ UNCHANGED << syncer, clock, version, store, settled, fires, calls >>

\* syncSummary: db.GetDaySummary and the "already up to date" return
GetDaySummaryStep(p) ==
  /\ proc[p].pc = "GetDaySummary"
  /\ \/ /\ proc' = [proc EXCEPT ![p] = SummaryFailed(@, PersistenceError)]
        /\ StoreFails(p, "GetDaySummary")
     \/ /\ LET totalSeconds == proc[p].resp[1].GrandTotal
               existing == GetDaySummary(day_summaries, proc[p].day)
           IN  proc' = [proc EXCEPT ![p] =
                          IF SummaryUpToDate(existing, totalSeconds)
                          THEN SummaryDone(@, totalSeconds)
                          ELSE [@ EXCEPT !.pc = "UpsertDaySummary"]]
        /\ Succeeds(obs)
  /\ UNCHANGED << syncer, clock, version, store, settled, fires, calls >>

UpsertDaySummaryStep(p) ==
  /\ proc[p].pc = "UpsertDaySummary"
  /\ \/ /\ proc' = [proc EXCEPT ![p] = SummaryFailed(@, PersistenceError)]
        /\ StoreFails(p, "UpsertDaySummary")
        /\ UNCHANGED day_summaries
     \/ /\ day_summaries' =
             UpsertDaySummary(day_summaries, proc[p].day, proc[p].resp[1].GrandTotal)
        /\ proc' = [proc EXCEPT ![p].pc = "DeleteDayStatsByDay"]
        /\ Succeeds(obs)
  /\ UNCHANGED << syncer, clock, version, durations, project_durations, heartbeats,
                  day_stats, sync_log, projects, settled, fires, calls >>

DeleteDayStatsByDayStep(p) ==
  /\ proc[p].pc = "DeleteDayStatsByDay"
  /\ \/ /\ proc' = [proc EXCEPT ![p] = SummaryFailed(@, PersistenceError)]
        /\ StoreFails(p, "DeleteDayStatsByDay")
        /\ UNCHANGED day_stats
     \/ /\ day_stats' = DeleteDayStatsByDay(day_stats, proc[p].day)
        /\ proc' = [proc EXCEPT ![p].pc = "InsertDayStats"]
        /\ Succeeds([obs EXCEPT ![p].before = << {r \in day_stats : r.day = DayOf(p)} >>])
  /\ UNCHANGED << syncer, clock, version, durations, project_durations, heartbeats,
                  day_summaries, sync_log, projects, settled, fires, calls >>

\* syncSummary: collect the stats, "if len(stats) > 0" insert them, return the total
InsertDayStatsStep(p) ==
  /\ proc[p].pc = "InsertDayStats"
  /\ LET stats == CollectStats(proc[p].day, proc[p].resp[1])
     IN  \/ /\ Len(stats) > 0
            /\ proc' = [proc EXCEPT ![p] = SummaryFailed(@, PersistenceError)]
            /\ StoreFails(p, "InsertDayStats")
            /\ UNCHANGED day_stats
         \/ /\ day_stats' = IF Len(stats) > 0 THEN InsertDayStats(day_stats, stats)
                            ELSE day_stats
            /\ proc' = [proc EXCEPT ![p] = SummaryDone(@, @.resp[1].GrandTotal)]
            /\ Succeeds(obs)
  /\ UNCHANGED << syncer, clock, version, durations, project_durations, heartbeats,
                  day_summaries, sync_log, projects, settled, fires, calls >>

\* SyncDay: s.db.RecordSync(day, 0, "failed") with its error dropped; return err
RecordFailedStep(p) ==
  /\ proc[p].pc = "RecordFailed"
  /\ \/ /\ StoreFails(p, "RecordSync")
        /\ UNCHANGED sync_log
     \/ /\ sync_log' = RecordSync(sync_log, proc[p].day, 0, "failed")
        /\ Succeeds(obs)
  /\ proc' = [proc EXCEPT ![p] = Return(@, @.err)]
  /\ UNCHANGED << syncer, clock, version, durations, project_durations, heartbeats,
                  day_summaries, day_stats, projects, settled, fires, calls >>

\* syncDurations: client.GetDurations(day), and the empty-data return
GetDurations(p) ==
  /\ proc[p].pc = "GetDurations"
  /\ \/ /\ proc' = [proc EXCEPT ![p] = DurationsFailed(@, UpstreamError)]
        /\ UpstreamFails(p, "durations")
     \/ /\ LET resp == RemoteDurations(version[DayOf(p)])
           IN  proc' = [proc EXCEPT ![p] =
                          IF Len(resp) = 0 THEN DurationsDone(@)
                          ELSE [@ EXCEPT !.pc = "CountDurationsByDay", !.resp = resp]]
        /\ Succeeds([obs EXCEPT ![p].ran = @ \cup {"durations"}])
  /\ UNCHANGED << syncer, clock, version, store, settled, fires, calls >>

\* syncDurations: db.CountDurationsByDay and the "already up to date" return
CountDurationsByDayStep(p) ==
  /\ proc[p].pc = "CountDurationsByDay"
  /\ \/ /\ proc' = [proc EXCEPT ![p] = DurationsFailed(@, PersistenceError)]
        /\ StoreFails(p, "CountDurationsByDay")
     \/ LET existingCount == CountDurationsByDay(durations, proc[p].day)
        IN  /\ proc' = [proc EXCEPT ![p] =
                          IF DurationsUpToDate(existingCount, Len(@.resp))
                          THEN DurationsDone(@)
                          ELSE [@ EXCEPT !.pc = "DeleteDurationsByDay",
                                         !.existingCount = existingCount]]
            /\ Succeeds(IF DurationsUpToDate(existingCount, Len(proc[p].resp))
                        THEN [obs EXCEPT ![p].skipped = @ \cup {"durations"}]
                        ELSE obs)
  /\ UNCHANGED << syncer, clock, version, store, settled, fires, calls >>

DeleteDurationsByDayStep(p) ==
  /\ proc[p].pc = "DeleteDurationsByDay"
  /\ \/ /\ proc' = [proc EXCEPT ![p] = DurationsFailed(@, PersistenceError)]
        /\ StoreFails(p, "DeleteDurationsByDay")
        /\ UNCHANGED durations
     \/ /\ durations' = DeleteDurationsByDay(durations, proc[p].day)
        /\ proc' = [proc EXCEPT ![p].pc = "InsertDurations"]
        /\ Succeeds([obs EXCEPT ![p].before = durations[DayOf(p)]])
  /\ UNCHANGED << syncer, clock, version, project_durations, heartbeats, day_summaries,
                  day_stats, sync_log, projects, settled, fires, calls >>

\* syncDurations: db.InsertDurations, then the projects map of the response
InsertDurationsStep(p) ==
  /\ proc[p].pc = "InsertDurations"
  /\ \/ /\ proc' = [proc EXCEPT ![p] = DurationsFailed(@, PersistenceError)]
        /\ StoreFails(p, "InsertDurations")
        /\ UNCHANGED durations
     \/ /\ durations' = InsertDurations(durations, NewDurations(proc[p].day, proc[p].resp))
        /\ LET names == ProjectNames(proc[p].resp)
           IN  proc' = [proc EXCEPT ![p] =
                          IF names = {} THEN DurationsDone(@)
                          ELSE [@ EXCEPT !.pc = "GetDurationsWithProject",
                                         !.projects = names]]
        /\ Succeeds(obs)
  /\ UNCHANGED << syncer, clock, version, project_durations, heartbeats, day_summaries,
                  day_stats, sync_log, projects, settled, fires, calls >>

\* after the range over the projects map: "if len(projectDurations) > 0"
AfterProjects(r) ==
  IF r.projects = {}
  THEN IF Len(r.projectDurations) > 0
       THEN [r EXCEPT !.pc = "DeleteProjectDurationsByDay"]
       ELSE DurationsDone(r)
  ELSE r

\* a variant in which the error of a project's fetch is returned
ProjectFetchFailed_Fatal(r, project) == DurationsFailed(r, UpstreamError)

\* GetDurationsWithProject(day, project) failed: the error is logged, "continue"
ProjectFetchFailed(r, project) == AfterProjects([r EXCEPT !.projects = @ \ {project}])

\* syncDurations: one iteration of "for project := range projects"; the order of
\* a Go map's iteration is unspecified, so any remaining key may come next
GetDurationsWithProject(p) ==
  /\ proc[p].pc = "GetDurationsWithProject"
  /\ \E project \in proc[p].projects :
       \/ /\ proc' = [proc EXCEPT ![p] = ProjectFetchFailed(@, project)]
          /\ UpstreamFails(p, "project")
       \/ /\ LET projResp == RemoteDurationsWithProject(version[DayOf(p)], project)
             IN  proc' = [proc EXCEPT ![p] =
                            AfterProjects(
                              [@ EXCEPT !.projects = @ \ {project},
                                        !.projectDurations =
                                          @ \o NewProjectDurations(proc[p].day, project,
                                                                   projResp)])]
          /\ Succeeds(obs)
  /\ UNCHANGED << syncer, clock, version, store, settled, fires, calls >>

DeleteProjectDurationsByDayStep(p) ==
  /\ proc[p].pc = "DeleteProjectDurationsByDay"
  /\ \/ /\ proc' = [proc EXCEPT ![p] = DurationsFailed(@, PersistenceError)]
        /\ StoreFails(p, "DeleteProjectDurationsByDay")
        /\ UNCHANGED project_durations
     \/ /\ project_durations' = DeleteProjectDurationsByDay(project_durations, proc[p].day)
        /\ proc' = [proc EXCEPT ![p].pc = "InsertProjectDurations"]
        /\ Succeeds([obs EXCEPT ![p].before = project_durations[DayOf(p)]])
  /\ UNCHANGED << syncer, clock, version, durations, heartbeats, day_summaries, day_stats,
                  sync_log, projects, settled, fires, calls >>

InsertProjectDurationsStep(p) ==
  /\ proc[p].pc = "InsertProjectDurations"
  /\ \/ /\ proc' = [proc EXCEPT ![p] = DurationsFailed(@, PersistenceError)]
        /\ StoreFails(p, "InsertProjectDurations")
        /\ UNCHANGED project_durations
     \/ /\ project_durations' =
             InsertProjectDurations(project_durations, proc[p].projectDurations)
        /\ proc' = [proc EXCEPT ![p] = DurationsDone(@)]
        /\ Succeeds(obs)
  /\ UNCHANGED << syncer, clock, version, durations, heartbeats, day_summaries, day_stats,
                  sync_log, projects, settled, fires, calls >>


\* syncHeartbeats: client.GetHeartbeats(day), and the empty-data return
GetHeartbeats(p) ==
  /\ proc[p].pc = "GetHeartbeats"
  /\ \/ /\ proc' = [proc EXCEPT ![p] = HeartbeatsFailed(@, UpstreamError)]
        /\ UpstreamFails(p, "heartbeats")
     \/ /\ LET resp == RemoteHeartbeats(version[DayOf(p)])
           IN  proc' = [proc EXCEPT ![p] =
                          IF Len(resp) = 0 THEN HeartbeatsDone(@)
                          ELSE [@ EXCEPT !.pc = "CountHeartbeatsByDay", !.resp = resp]]
        /\ Succeeds([obs EXCEPT ![p].ran = @ \cup {"heartbeats"}])
  /\ UNCHANGED << syncer, clock, version, store, settled, fires, calls >>

CountHeartbeatsByDayStep(p) ==
  /\ proc[p].pc = "CountHeartbeatsByDay"
  /\ \/ /\ proc' = [proc EXCEPT ![p] = HeartbeatsFailed(@, PersistenceError)]
        /\ StoreFails(p, "CountHeartbeatsByDay")
     \/ LET existingCount == CountHeartbeatsByDay(heartbeats, proc[p].day)
        IN  /\ proc' = [proc EXCEPT ![p] =
                          IF HeartbeatsUpToDate(existingCount, Len(@.resp))
                          THEN HeartbeatsDone(@)
                          ELSE [@ EXCEPT !.pc = "DeleteHeartbeatsByDay",
                                         !.existingCount = existingCount]]
            /\ Succeeds(IF HeartbeatsUpToDate(existingCount, Len(proc[p].resp))
                        THEN [obs EXCEPT ![p].skipped = @ \cup {"heartbeats"}]
                        ELSE obs)
  /\ UNCHANGED << syncer, clock, version, store, settled, fires, calls >>

DeleteHeartbeatsByDayStep(p) ==
  /\ proc[p].pc = "DeleteHeartbeatsByDay"
  /\ \/ /\ proc' = [proc EXCEPT ![p] = HeartbeatsFailed(@, PersistenceError)]
        /\ StoreFails(p, "DeleteHeartbeatsByDay")
        /\ UNCHANGED heartbeats
     \/ /\ heartbeats' = DeleteHeartbeatsByDay(heartbeats, proc[p].day)
        /\ proc' = [proc EXCEPT ![p].pc = "InsertHeartbeats"]
        /\ Succeeds([obs EXCEPT ![p].before = heartbeats[DayOf(p)]])
  /\ UNCHANGED << syncer, clock, version, durations, project_durations, day_summaries,
                  day_stats, sync_log, projects, settled, fires, calls >>

InsertHeartbeatsStep(p) ==
  /\ proc[p].pc = "InsertHeartbeats"
  /\ \/ /\ proc' = [proc EXCEPT ![p] = HeartbeatsFailed(@, PersistenceError)]
        /\ StoreFails(p, "InsertHeartbeats")
        /\ UNCHANGED heartbeats
     \/ /\ heartbeats' = InsertHeartbeats(heartbeats, NewHeartbeats(proc[p].day, proc[p].resp))
        /\ proc' = [proc EXCEPT ![p] = HeartbeatsDone(@)]
        /\ Succeeds(obs)
  /\ UNCHANGED << syncer, clock, version, durations, project_durations, day_summaries,
                  day_stats, sync_log, projects, settled, fires, calls >>

\* SyncDay: s.db.RecordSync(day, totalSeconds, "success") with its error dropped;
\* return nil.  A run that met no failure, shared its day with no other run and saw
\* one upstream version leaves the day settled.
RecordSuccessStep(p) ==
  /\ proc[p].pc = "RecordSuccess"
  /\ \/ /\ StoreFails(p, "RecordSync")
        /\ UNCHANGED << sync_log, settled >>
     \/ /\ sync_log' = RecordSync(sync_log, proc[p].day, proc[p].totalSeconds, "success")
        /\ Succeeds(obs)
        /\ settled' =
             IF obs[p].pure
             THEN [settled EXCEPT ![DayOf(p)] =
                     IF @ = << >> THEN << [rows |-> DayRows(DayOf(p)), reruns |-> 0] >>
                     ELSE << [@[1] EXCEPT !.reruns = 1] >>]
             ELSE settled
  /\ proc' = [proc EXCEPT ![p] = Return(@, NoErr)]
  /\ UNCHANGED << syncer, clock, version, durations, project_durations, heartbeats,
                  day_summaries, day_stats, projects, fires, calls >>

(***************************************************************************)
(* The scheduler: StartScheduler syncs yesterday, then arms the schedule,  *)
(* whose every firing syncs yesterday again.                               *)
(***************************************************************************)
\* SyncYesterday: yesterday := time.Now().AddDate(0, 0, -1); s.SyncDay(yesterday)
\* a variant that syncs the day of the firing
SyncYesterday_Today(p, base) ==
  \E now \in Ticks :
    /\ Now(now)
    /\ CallSyncDay(p, [base EXCEPT !.job = "yesterday"], now, << >>)

SyncYesterday(p, base) ==
  \E now \in Ticks :
    /\ Now(now)
    /\ CallSyncDay(p, [base EXCEPT !.job = "yesterday"], AddDate(now, -1), << >>)

StartScheduler ==
  /\ proc["sched"].pc = "StartScheduler"
  /\ SyncYesterday("sched", IdleProc)
  /\ UNCHANGED << syncer, version, store, settled, fires, calls, failures >>

\* SyncYesterday logs SyncDay's error and returns.  After the startup sync,
\* StartScheduler creates the cron, adds the job and starts it; a job of the
\* schedule or of the ticker ends
SyncYesterdayReturns ==
  /\ proc["sched"].pc = "SyncDayReturned"
  /\ proc["sched"].job = "yesterday"
  /\ proc' = [proc EXCEPT !["sched"] =
                [IdleProc EXCEPT !.pc = IF syncer.cron = "new" THEN "ticker" ELSE "cron"]]
  /\ obs' = [obs EXCEPT !["sched"] = FreshObs]
  /\ syncer' = IF syncer.cron = "nil" THEN [syncer EXCEPT !.cron = "running"]
               ELSE syncer
  /\ UNCHANGED << clock, version, store, settled, fires, calls, failures >>

\* the same return of the startup sync when the configured schedule is not a
\* cron expression: the cron is created, AddFunc fails, the 24-hour ticker's
\* goroutine is started and the cron never is
AddFuncFails ==
  /\ proc["sched"].pc = "SyncDayReturned"
  /\ proc["sched"].job = "yesterday"
  /\ syncer.cron = "nil"
  /\ proc' = [proc EXCEPT !["sched"] = [IdleProc EXCEPT !.pc = "ticker"]]
  /\ obs' = [obs EXCEPT !["sched"] = FreshObs]
  /\ syncer' = [syncer EXCEPT !.cron = "new"]
  /\ UNCHANGED << clock, version, store, settled, fires, calls, failures >>

\* the running cron fires the job: s.SyncYesterday()
CronFires ==
  /\ proc["sched"].pc = "cron"
  /\ syncer.cron = "running"
  /\ fires < MaxFires
  /\ fires' = fires + 1
  /\ SyncYesterday("sched", IdleProc)
  /\ UNCHANGED << syncer, version, store, settled, calls, failures >>

\* "for range ticker.C { s.SyncYesterday() }"
TickerFires ==
  /\ proc["sched"].pc = "ticker"
  /\ fires < MaxFires
  /\ fires' = fires + 1
  /\ SyncYesterday("sched", IdleProc)
  /\ UNCHANGED << syncer, version, store, settled, calls, failures >>

\* Stop, called once at shutdown: "if s.cron != nil { s.cron.Stop() }".  Its read
\* of s.cron is not synchronized with StartScheduler's write: it may see nil
\* after the cron was created.  cron.Stop() ends a running cron's firings and
\* leaves the jobs in progress alone; on a cron that was not started it does
\* nothing
Stop ==
  /\ ~ syncer.stopped
  /\ \E seen \in {"nil", syncer.cron} :
       syncer' = [cron |-> IF seen = "running" THEN "stopped" ELSE syncer.cron,
                  stopped |-> TRUE]
  /\ UNCHANGED << clock, version, store, proc, obs, settled, fires, calls, failures >>

(***************************************************************************)
(* The day loops of SyncDays and SyncDateRange.                            *)
(***************************************************************************)
\* "for d := ...; !d.After(end); ..." at its test, d and end in r: the next
\* SyncDay call, or the return of the loop's function
LoopTest(p, r, called) ==
  IF After(r.d, r.end)
  THEN /\ proc' = [proc EXCEPT ![p] =
                     [r EXCEPT !.pc = IF r.job = "days" THEN "GetProjects"
                                      ELSE "SyncDateRangeReturned",
                               !.err = NoErr, !.day = 0, !.totalSeconds = 0]]
       /\ obs' = [obs EXCEPT ![p] = [FreshObs EXCEPT !.called = called]]
  ELSE CallSyncDay(p, [r EXCEPT !.totalSeconds = 0], r.d, called)

\* the values of the days parameter of a trigger request
DaysStrings == {"", "many"} \cup {ToString(n) : n \in -1 .. MaxDays}

\* strconv.Atoi(s)
Atoi(s) ==
  IF \E n \in -1 .. MaxDays : ToString(n) = s
  THEN [n |-> CHOOSE n \in -1 .. MaxDays : ToString(n) = s, err |-> NoErr]
  ELSE [n |-> 0, err |-> "syntax"]

\* triggerSync, the key being the configured one: "if err != nil || days <= 0
\* { days = 1 }", the goroutine is started and the request answered
TriggerSync(daysStr) ==
  /\ proc["trig"].pc = "idle"
  /\ calls < MaxCalls
  /\ calls' = calls + 1
  /\ LET parsed == Atoi(daysStr)
         days == IF parsed.err # NoErr \/ parsed.n <= 0 THEN 1 ELSE parsed.n
     IN  proc' = [proc EXCEPT !["trig"] =
                    [IdleProc EXCEPT !.pc = "SyncDays", !.job = "days", !.days = days]]
  /\ UNCHANGED << syncer, clock, version, store, obs, settled, fires, failures >>

\* SyncDays: end := time.Now().AddDate(0, 0, -1)
SyncDaysEnd(p) ==
  /\ proc[p].pc = "SyncDays"
  /\ \E now \in Ticks :
       /\ Now(now)
       /\ proc' = [proc EXCEPT ![p].pc = "SyncDaysStart", ![p].end = AddDate(now, -1)]
  /\ UNCHANGED << syncer, version, store, obs, settled, fires, calls, failures >>

\* SyncDays: start := time.Now().AddDate(0, 0, -days), and the loop's first test
SyncDaysStart(p) ==
  /\ proc[p].pc = "SyncDaysStart"
  /\ \E now \in Ticks :
       /\ Now(now)
       /\ LoopTest(p, [proc[p] EXCEPT !.start = AddDate(now, -proc[p].days),
                                          !.d = AddDate(now, -proc[p].days)], << >>)
  /\ UNCHANGED << syncer, version, store, settled, fires, calls, failures >>

\* the callers' "if err != nil { log; continue }", d = d.AddDate(0, 0, 1), the test
LoopNext(p) ==
  /\ proc[p].pc = "SyncDayReturned"
  /\ proc[p].job \in {"days", "range"}
  /\ LoopTest(p, [proc[p] EXCEPT !.d = AddDate(@, 1)], obs[p].called)
  /\ UNCHANGED << syncer, clock, version, store, settled, fires, calls, failures >>

RangeStarts == {t \in Ticks : Format(t) = FirstDay}
RangeEnds == {t \in Ticks : Format(t) <= Day0}

\* a call SyncDateRange(start, end)
SyncDateRange(start, end) ==
  /\ proc["trig"].pc = "idle"
  /\ calls < MaxCalls
  /\ calls' = calls + 1
  /\ LoopTest("trig", [IdleProc EXCEPT !.job = "range", !.start = start, !.d = start,
                                       !.end = end], << >>)
  /\ UNCHANGED << syncer, clock, version, store, settled, fires, failures >>

(***************************************************************************)
(* SyncProjects, which the trigger's goroutine runs after SyncDays.        *)
(***************************************************************************)
GetProjects(p) ==
  /\ proc[p].pc = "GetProjects"
  /\ \/ /\ proc' = [proc EXCEPT ![p].pc = "SyncProjectsReturned",
                                ![p].err = UpstreamError]
        /\ UpstreamFails(p, "projects")
     \/ /\ proc' = [proc EXCEPT ![p] =
                      IF Len(RemoteProjects) = 0
                      THEN [@ EXCEPT !.pc = "SyncProjectsReturned", !.err = NoErr]
                      ELSE [@ EXCEPT !.pc = "UpsertProject", !.resp = RemoteProjects,
                                     !.i = 1]]
        /\ Succeeds(obs)
  /\ UNCHANGED << syncer, clock, version, store, settled, fires, calls >>

\* one iteration of the range over resp.Data: an upsert's error is logged; after
\* the last one SyncProjects returns nil
UpsertProjectStep(p) ==
  /\ proc[p].pc = "UpsertProject"
  /\ \/ /\ StoreFails(p, "UpsertProject")
        /\ UNCHANGED projects
     \/ /\ projects' = UpsertProject(projects, NewProject(proc[p].resp[proc[p].i]))
        /\ Succeeds(obs)
  /\ proc' = [proc EXCEPT ![p] =
                IF @.i = Len(@.resp)
                THEN [@ EXCEPT !.pc = "SyncProjectsReturned", !.err = NoErr,
                               !.resp = << >>, !.i = 0]
                ELSE [@ EXCEPT !.i = @ + 1]]
  /\ UNCHANGED << syncer, clock, version, durations, project_durations, heartbeats,
                  day_summaries, day_stats, sync_log, settled, fires, calls >>

\* the goroutine ends
GoroutineExit(p) ==
  /\ proc[p].pc \in {"SyncProjectsReturned", "SyncDateRangeReturned"}
  /\ proc' = [proc EXCEPT ![p] = IdleProc]
  /\ obs' = [obs EXCEPT ![p] = FreshObs]
  /\ UNCHANGED << syncer, clock, version, store, settled, fires, calls, failures >>

SyncDayStep(p) ==
  \/ GetSummaries(p)
  \/ GetDaySummaryStep(p)
  \/ UpsertDaySummaryStep(p)
  \/ DeleteDayStatsByDayStep(p)
  \/ InsertDayStatsStep(p)
  \/ RecordFailedStep(p)
  \/ GetDurations(p)
  \/ CountDurationsByDayStep(p)
  \/ DeleteDurationsByDayStep(p)
  \/ InsertDurationsStep(p)
  \/ GetDurationsWithProject(p)
  \/ DeleteProjectDurationsByDayStep(p)
  \/ InsertProjectDurationsStep(p)
  \/ GetHeartbeats(p)
  \/ CountHeartbeatsByDayStep(p)
  \/ DeleteHeartbeatsByDayStep(p)
  \/ InsertHeartbeatsStep(p)
  \/ RecordSuccessStep(p)

\* a step of a goroutine that is in a sync
Step(p) ==
  \/ SyncDayStep(p)
  \/ SyncDaysEnd(p)
  \/ SyncDaysStart(p)
  \/ LoopNext(p)
  \/ GetProjects(p)
  \/ UpsertProjectStep(p)
  \/ GoroutineExit(p)

\* the program over an upstream whose content stays as it is: the scheduler's
\* goroutine and the trigger's goroutine interleave freely
Next ==
  \/ StartScheduler
  \/ SyncYesterdayReturns
  \/ CronFires
  \/ \E daysStr \in DaysStrings : TriggerSync(daysStr)
  \/ \E p \in Procs : Step(p)

Spec == Init /\ [][Next]_vars

\* goroutine p is in no sync
Quiet(p) == proc[p].pc \in {"idle", "cron", "ticker"}

\* the program over an upstream whose content grows, when the schedule and the
\* operator's requests happen not to overlap: one sync at a time
NextSerial ==
  \/ \E d \in Days : UpstreamAdvance(d)
  \/ StartScheduler
  \/ SyncYesterdayReturns
  \/ Quiet("trig") /\ CronFires
  \/ Quiet("sched") /\ \E daysStr \in DaysStrings : TriggerSync(daysStr)
  \/ \E p \in Procs : Step(p)

SpecSerial == Init /\ [][NextSerial]_vars

\* the upstream service no longer has data for day d: GetSummaries, GetDurations
\* and GetHeartbeats of d return empty lists from now on
UpstreamErase(d) ==
  /\ version[d] > 0
  /\ version' = [version EXCEPT ![d] = 0]
  /\ settled' = [settled EXCEPT ![d] = << >>]
  /\ obs' = [p \in Procs |->
               IF InSyncDay(p) /\ DayOf(p) = d THEN [obs[p] EXCEPT !.pure = FALSE]
               ELSE obs[p]]
  /\ UNCHANGED << syncer, clock, store, proc, fires, calls, failures >>

\* the scheduler's syncs, one after the other, over an upstream that may lose the
\* data of a day
NextErase ==
  \/ \E d \in Days : UpstreamErase(d)
  \/ StartScheduler
  \/ SyncYesterdayReturns
  \/ CronFires
  \/ SyncDayStep("sched")

SpecErase == Init /\ [][NextErase]_vars

\* the engine called directly: SyncDateRange, which no goroutine of the program calls
NextRange ==
  \/ \E d \in Days : UpstreamAdvance(d)
  \/ \E start \in RangeStarts, end \in RangeEnds : SyncDateRange(start, end)
  \/ SyncDayStep("trig")
  \/ LoopNext("trig")
  \/ GoroutineExit("trig")

SpecRange == Init /\ [][NextRange]_vars

\* the program from its start to its shutdown, whose Stop comes at any moment:
\* either kind of schedule, syncs that do not overlap
NextLife ==
  \/ StartScheduler
  \/ SyncYesterdayReturns
  \/ AddFuncFails
  \/ Quiet("trig") /\ CronFires
  \/ Quiet("trig") /\ TickerFires
  \/ Stop
  \/ Quiet("sched") /\ \E daysStr \in DaysStrings : TriggerSync(daysStr)
  \/ \E p \in Procs : Step(p)

SpecLife == Init /\ [][NextLife]_vars

\* the instant of day d at which the default schedule "0 1 * * *" fires
FiringTime(d) == d * TicksPerDay

\* the running cron fires the job of the daily schedule: at 01:00 of the day of
\* the startup if that is still to come, at 01:00 of the next day otherwise
CronFiresDaily ==
  /\ proc["sched"].pc = "cron"
  /\ syncer.cron = "running"
  /\ fires < MaxFires
  /\ fires' = fires + 1
  /\ \E now \in {FiringTime(Format(clock)), FiringTime(Format(clock) + 1)} :
       /\ now >= clock
       /\ Format(now) = Format(clock) => fires = 0
       /\ clock' = now
       /\ CallSyncDay("sched", [IdleProc EXCEPT !.job = "yesterday"],
                      AddDate(now, -1), << >>)
  /\ UNCHANGED << syncer, version, store, settled, calls, failures >>

\* the 24-hour ticker fires: a day after the startup sync returned
TickerFiresDaily ==
  /\ proc["sched"].pc = "ticker"
  /\ fires < MaxFires
  /\ fires' = fires + 1
  /\ clock' = AddDate(clock, 1)
  /\ CallSyncDay("sched", [IdleProc EXCEPT !.job = "yesterday"], AddDate(clock', -1), << >>)
  /\ UNCHANGED << syncer, version, store, settled, calls, failures >>

\* every further firing of the cron or of the ticker falls on a later day still:
\* its SyncYesterday syncs a day past the days of the model, and SyncDay(day)
\* touches no row of another day
FiresOnLaterDay ==
  /\ \/ proc["sched"].pc = "cron" /\ syncer.cron = "running"
     \/ proc["sched"].pc = "ticker"
  /\ fires = MaxFires
  /\ proc' = [proc EXCEPT !["sched"] = [IdleProc EXCEPT !.pc = "later", !.job = "yesterday"]]
  /\ UNCHANGED << syncer, clock, version, store, obs, settled, fires, calls, failures >>

\* the sync of that later day returns
LaterSyncReturns ==
  /\ proc["sched"].pc = "later"
  /\ proc' = [proc EXCEPT !["sched"] =
                [IdleProc EXCEPT !.pc = IF syncer.cron = "new" THEN "ticker" ELSE "cron"]]
  /\ UNCHANGED << syncer, clock, version, store, obs, settled, fires, calls, failures >>

\* the scheduler alone under the default daily schedule or the ticker, over an
\* upstream whose content grows
NextDaily ==
  \/ \E d \in Days : UpstreamAdvance(d)
  \/ StartScheduler
  \/ SyncYesterdayReturns
  \/ AddFuncFails
  \/ CronFiresDaily
  \/ TickerFiresDaily
  \/ FiresOnLaterDay
  \/ LaterSyncReturns
  \/ SyncDayStep("sched")

\* the scheduler's goroutine keeps running and the schedule keeps firing
SpecDaily == Init /\ [][NextDaily]_vars /\ WF_vars(NextDaily)

(***************************************************************************)
(* The range read endpoint, GET /api/v1/stats/range?start=...&end=...: the  *)
(* handler parses the two dates and reads the aggregated day_stats.  A      *)
(* date in a request is a string; the day_stats read are rows stored by     *)
(* earlier syncs, a few of them at most.                                    *)
(***************************************************************************)
MaxStatRows == 3

DateString(d) == "2024-01-0" \o ToString(d)
QueryStrings == {"", "01/02/2024"} \cup {DateString(d) : d \in Days}

\* time.Parse("2006-01-02", s): midnight of the day s names, or an error
parseDate(s) ==
  IF \E d \in Days : DateString(d) = s
  THEN [t |-> (CHOOSE d \in Days : DateString(d) = s) * TicksPerDay, err |-> NoErr]
  ELSE [t |-> 0, err |-> "parse"]

\* parseDate(t.Format("2006-01-02")) for an instant t of any day
Midnight(t) == Format(t) * TicksPerDay

\* FROM day_stats WHERE day >= ? AND day <= ? AND type = ?
StatsInRange(t, start, end, statType) ==
  {r \in t : r.day >= Format(start) /\ r.day <= Format(end) /\ r.type = statType}

\* SELECT name, SUM(total_seconds) as total ... GROUP BY name
GroupByName(rows) ==
  {[Name |-> n,
    TotalSeconds |-> LET g == {r \in rows : r.name = n}
                     IN  Sum([r \in g |-> r.total_seconds], g)] :
     n \in {r.name : r \in rows}}

\* the orders in which a query may return the rows of a set
Orderings(G) ==
  {q \in [1 .. Cardinality(G) -> G] : \A i, j \in DOMAIN q : i # j => q[i] # q[j]}

\* a variant without the ORDER BY clause
GetAggregatedStats_Unordered(t, start, end, statType) ==
  Orderings(GroupByName(StatsInRange(t, start, end, statType)))

\* ... GROUP BY name ORDER BY total DESC: the results the query may return
\* (rows of equal total come in either order)
GetAggregatedStats(t, start, end, statType) ==
  {q \in Orderings(GroupByName(StatsInRange(t, start, end, statType))) :
     \A i, j \in DOMAIN q : i < j => q[i].TotalSeconds >= q[j].TotalSeconds}

\* the rows a sync may have stored
StatInputs ==
  [Day : {d * TicksPerDay : d \in Days}, Type : {"language", "project"},
   Name : {"A", "B"}, TotalSeconds : {100, 300}]

\* an earlier sync stored the day stat s
InsertDayStatsCall(s) ==
  /\ proc["trig"].pc = "idle"
  /\ day_stats' = InsertDayStats(day_stats, << s >>)
  /\ Cardinality(day_stats') <= MaxStatRows
  /\ UNCHANGED << syncer, clock, version, durations, project_durations, heartbeats,
                  day_summaries, sync_log, projects, proc, obs, settled, fires,
                  calls, failures >>

\* getRangeStats up to its reads: the default range when a date is missing,
\* parseDate of both dates, 400 Bad Request for a date that does not parse
getRangeStats(p, startStr, endStr) ==
  /\ proc[p].pc = "idle"
  /\ IF startStr = "" \/ endStr = ""
     THEN \E now1, now2 \in Ticks :
            /\ now1 \in clock .. now2
            /\ Now(now2)
            /\ proc' = [proc EXCEPT ![p] =
                          [IdleProc EXCEPT !.pc = "GetAggregatedStats",
                                           !.job = "getRangeStats",
                                           !.start = Midnight(AddDate(now2, -7)),
                                           !.end = Midnight(AddDate(now1, -1))]]
     ELSE /\ UNCHANGED clock
          /\ LET start == parseDate(startStr)
                 end == parseDate(endStr)
             IN  proc' = [proc EXCEPT ![p] =
                   IF start.err # NoErr
                   THEN [IdleProc EXCEPT !.pc = "BadRequest", !.job = "getRangeStats",
                                         !.err = "invalid start date format"]
                   ELSE IF end.err # NoErr
                   THEN [IdleProc EXCEPT !.pc = "BadRequest", !.job = "getRangeStats",
                                         !.start = start.t,
                                         !.err = "invalid end date format"]
                   ELSE [IdleProc EXCEPT !.pc = "GetAggregatedStats",
                                         !.job = "getRangeStats",
                                         !.start = start.t, !.end = end.t]]
  /\ UNCHANGED << syncer, version, store, obs, settled, fires, calls, failures >>

\* getRangeStats: the five GetAggregatedStats reads, the total, the reply (of
\* which the aggregated lists and the total are kept)
GetAggregatedStatsStep(p) ==
  /\ proc[p].pc = "GetAggregatedStats"
  /\ LET Read(statType) ==
           GetAggregatedStats(day_stats, proc[p].start, proc[p].end, statType)
     IN  \E categories \in Read("category"), languages \in Read("language"),
            editors \in Read("editor"), operating_systems \in Read("os"),
            projectStats \in Read("project") :
           proc' = [proc EXCEPT ![p].pc = "Replied",
                      ![p].totalSeconds =
                         Sum([i \in DOMAIN projectStats |-> projectStats[i].TotalSeconds],
                             DOMAIN projectStats),
                      ![p].resp = << [category |-> categories, language |-> languages,
                                      editor |-> editors, os |-> operating_systems,
                                      project |-> projectStats] >>]
  /\ UNCHANGED << syncer, clock, version, store, obs, settled, fires, calls, failures >>

\* the handler returns
RequestDone(p) ==
  /\ proc[p].pc \in {"BadRequest", "Replied", "Unauthorized"}
  /\ proc' = [proc EXCEPT ![p] = IdleProc]
  /\ UNCHANGED << syncer, clock, version, store, obs, settled, fires, calls, failures >>

NextQuery ==
  \/ \E s \in StatInputs : InsertDayStatsCall(s)
  \/ \E startStr, endStr \in QueryStrings : getRangeStats("trig", startStr, endStr)
  \/ GetAggregatedStatsStep("trig")
  \/ RequestDone("trig")

SpecQuery == Init /\ [][NextQuery]_vars

(***************************************************************************)
(* The yearly activity read, GetYearlyActivity(year): the day summaries of *)
(* the year merged with the project rows of their days.  The tables read   *)
(* are rows stored by earlier syncs, of days around both ends of a year.   *)
(***************************************************************************)
Years == {2024, 2025}

\* time.Date(y, 1, 1, ...).Format("2006-01-02") as a day: DateString(1) is
\* "2024-01-01", 2024 has 366 days and 2025 has 365
Jan1(y) == CASE y = 2024 -> 1 [] y = 2025 -> 367 [] y = 2026 -> 732

\* time.Date(y, 12, 31, ...).Format("2006-01-02") as a day
Dec31(y) == Jan1(y + 1) - 1

YearDays == {Jan1(2024) - 1, Jan1(2024), Jan1(2024) + 1, Dec31(2024), Jan1(2025)}

\* the text rows.Scan reads from a DATE column into a string: the stored
\* "2006-01-02" text, or the RFC3339 form of it, as the driver decides
DateSuffixes == {"", "T00:00:00Z"}
ScanDay(d, suffix) == [date |-> d, rest |-> suffix]

\* len(day) of a scanned day
DayLen(s) == 10 + Len(s.rest)

\* a variant that keeps the scanned text
NormalizedDay_AsScanned(s) == s

\* "if len(day) > 10 { normalizedDay = day[:10] }"
NormalizedDay(s) == IF DayLen(s) > 10 THEN [s EXCEPT !.rest = ""] ELSE s

\* "result[i].Date > result[j].Date" of two strings
DateGreater(a, b) == a.date > b.date \/ (a.date = b.date /\ DayLen(a) > DayLen(b))

\* FROM day_summaries WHERE day >= ? AND day <= ?
SummariesOfYear(t, year) == {r \in t : r.day >= Jan1(year) /\ r.day <= Dec31(year)}

\* the first loop: dayMap[normalizedDay] = &YearlyActivityDay{...}
DayMapOf(rows, suffix) ==
  LET keys == {NormalizedDay(ScanDay(r.day, suffix)) : r \in rows}
  IN  [k \in keys |->
         LET r == CHOOSE x \in rows : NormalizedDay(ScanDay(x.day, suffix)) = k
         IN  [Date |-> k, TotalSeconds |-> r.total_seconds, Projects |-> << >>]]

\* FROM day_stats WHERE day >= ? AND day <= ? AND type = 'project'
\* ORDER BY day, total_seconds DESC: the results the query may return
ProjectRowsOfYear(t, year) ==
  LET rows == {r \in t : r.day >= Jan1(year) /\ r.day <= Dec31(year) /\ r.type = "project"}
  IN  {q \in Orderings(rows) :
         \A i, j \in DOMAIN q :
           i < j => \/ q[i].day < q[j].day
                    \/ q[i].day = q[j].day /\ q[i].total_seconds >= q[j].total_seconds}

\* the second loop, one row: append to the day's Projects if the day exists
AppendProject(dayMap, r, suffix) ==
  LET k == NormalizedDay(ScanDay(r.day, suffix))
  IN  IF k \in DOMAIN dayMap
      THEN [dayMap EXCEPT ![k].Projects =
              Append(@, [Name |-> r.name, TotalSeconds |-> r.total_seconds])]
      ELSE dayMap

RECURSIVE AppendProjects(_, _, _)
AppendProjects(dayMap, q, suffix) ==
  IF q = << >> THEN dayMap
  ELSE AppendProjects(AppendProject(dayMap, Head(q), suffix), Tail(q), suffix)

\* "result[i], result[j] = result[j], result[i]"
Swap(s, i, j) == [s EXCEPT ![i] = s[j], ![j] = s[i]]

\* the inner loop of the sort, from j on
RECURSIVE SortInner(_, _, _)
SortInner(s, i, j) ==
  IF j > Len(s) THEN s
  ELSE SortInner(IF DateGreater(s[i].Date, s[j].Date) THEN Swap(s, i, j) ELSE s, i, j + 1)

\* the outer loop of the sort, from i on
RECURSIVE SortOuter(_, _)
SortOuter(s, i) == IF i >= Len(s) THEN s ELSE SortOuter(SortInner(s, i, i + 1), i + 1)

\* a variant that returns the map's values as ranged over
SortByDate_MapOrder(s) == s

SortByDate(s) == SortOuter(s, 1)

\* the results GetYearlyActivity may return: the scan format is the driver's,
\* the order of "range dayMap" is any
GetYearlyActivity(summaries, stats, year) ==
  UNION {UNION {{SortByDate(result) :
                   result \in Orderings({AppendProjects(DayMapOf(SummariesOfYear(summaries, year), suffix),
                                                       q, suffix)[k] :
                                           k \in DOMAIN DayMapOf(SummariesOfYear(summaries, year), suffix)})} :
                  q \in ProjectRowsOfYear(stats, year)} :
           suffix \in DateSuffixes}

\* the rows a sync may have stored
YearStatInputs ==
  [Day : {d * TicksPerDay : d \in {Jan1(2024), Jan1(2024) + 1, Jan1(2025)}},
   Type : {"project"}, Name : {"A", "B"}, TotalSeconds : {100, 300}]
    \cup [Day : {Jan1(2024) * TicksPerDay}, Type : {"language"}, Name : {"A"},
          TotalSeconds : {300}]

\* an earlier sync stored the summary of day d
UpsertDaySummaryCall(d) ==
  /\ proc["trig"].pc = "idle"
  /\ day_summaries' = UpsertDaySummary(day_summaries, d * TicksPerDay, 400)
  /\ UNCHANGED << syncer, clock, version, durations, project_durations, heartbeats,
                  day_stats, sync_log, projects, proc, obs, settled, fires,
                  calls, failures >>

\* a caller of GetYearlyActivity(year) gets its result
GetYearlyActivityCall(p, year) ==
  /\ proc[p].pc = "idle"
  /\ \E result \in GetYearlyActivity(day_summaries, day_stats, year) :
       proc' = [proc EXCEPT ![p] =
                  [IdleProc EXCEPT !.pc = "Replied", !.job = "GetYearlyActivity",
                                   !.resp = << [year |-> year, result |-> result] >>]]
  /\ UNCHANGED << syncer, clock, version, store, obs, settled, fires, calls, failures >>

NextYear ==
  \/ \E d \in YearDays : UpsertDaySummaryCall(d)
  \/ \E s \in YearStatInputs : InsertDayStatsCall(s)
  \/ \E year \in Years : GetYearlyActivityCall("trig", year)
  \/ RequestDone("trig")

SpecYear == Init /\ [][NextYear]_vars

(***************************************************************************)
(* The trigger endpoint with its key check, POST /api/v1/sync: a request    *)
(* carries a key in the query (api_key) or in the form (apiKey), and days.  *)
(***************************************************************************)
\* h.cfg.WakaTimeAPI
ConfiguredKey == "waka_key"

\* the keys a request may carry in either place
ApiKeys == {"", "waka_key", "other"}

\* a trigger request reaches the handler (of the requests that carry the
\* configured key, MaxCalls are served)
TriggerRequest(api_key, apiKey, daysStr) ==
  /\ proc["trig"].pc = "idle"
  /\ calls < MaxCalls \/ (IF api_key = "" THEN apiKey ELSE api_key) # ConfiguredKey
  /\ proc' = [proc EXCEPT !["trig"] =
                [IdleProc EXCEPT !.pc = "triggerSync", !.job = "triggerSync",
                                 !.resp = << [api_key |-> api_key, apiKey |-> apiKey,
                                              days |-> daysStr] >>]]
  /\ UNCHANGED << syncer, clock, version, store, obs, settled, fires, calls, failures >>

\* apiKey := r.URL.Query().Get("api_key"); if apiKey == "" { apiKey = r.FormValue("apiKey") }
SuppliedKey(r) == IF r.api_key = "" THEN r.apiKey ELSE r.api_key

\* a variant that lets a request without a key pass
KeyRejected_UnlessEmpty(key) == key # "" /\ key # ConfiguredKey

\* "if apiKey != h.cfg.WakaTimeAPI"
KeyRejected(key) == key # ConfiguredKey

\* triggerSync: 401 for a key that is not the configured one; otherwise "if err
\* != nil || days <= 0 { days = 1 }", the goroutine is started and the request
\* answered
triggerSync ==
  /\ proc["trig"].pc = "triggerSync"
  /\ LET r == proc["trig"].resp[1]
     IN  IF KeyRejected(SuppliedKey(r))
         THEN /\ proc' = [proc EXCEPT !["trig"].pc = "Unauthorized",
                                      !["trig"].err = "invalid api key"]
              /\ UNCHANGED calls
         ELSE /\ calls' = calls + 1
              /\ LET parsed == Atoi(r.days)
                     days == IF parsed.err # NoErr \/ parsed.n <= 0 THEN 1 ELSE parsed.n
                 IN  proc' = [proc EXCEPT !["trig"] =
                                [IdleProc EXCEPT !.pc = "SyncDays", !.job = "days",
                                                 !.days = days]]
  /\ UNCHANGED << syncer, clock, version, store, obs, settled, fires, failures >>

\* trigger requests with any key, and the syncs they start
NextTrigger ==
  \/ \E api_key, apiKey \in ApiKeys, daysStr \in DaysStrings :
       TriggerRequest(api_key, apiKey, daysStr)
  \/ triggerSync
  \/ RequestDone("trig")
  \/ Step("trig")

SpecTrigger == Init /\ [][NextTrigger]_vars

(***************************************************************************)
(* Properties.                                                             *)
(***************************************************************************)
\* the sync_log rows of day d
LogOf(t, d) == {r \in t : r.day = d}

\* the day_stats rows of day d
StatsOf(t, d) == {r \in t : r.day = d}

\* C1: atomic replace of Durations.  When a store fault hits the insert phase of
\* the replacement of day d's duration rows, the rows stored for d afterwards are
\* exactly the rows stored before the replacement began.
C1_AtomicReplaceDurations ==
  \A p \in Procs :
    (proc[p].pc = "GetHeartbeats" /\ "InsertDurations" \in obs[p].faults)
      => durations[DayOf(p)] = obs[p].before

\* goroutine p is inside SyncDays, SyncDateRange or SyncDay
InFlight(p) ==
  InSyncDay(p) \/ proc[p].pc \in {"SyncDays", "SyncDaysStart", "SyncDayReturned"}

\* C2: single-writer discipline.  In every reachable state at most one SyncDay,
\* SyncDays or SyncDateRange execution is in flight against the store.
C2_SingleWriter == Cardinality({p \in Procs : InFlight(p)}) <= 1

\* C3: no partial set visible to readers.  While SyncDay(d) is between the delete
\* and the insert of a replacement, the rows of d a reader sees in that table are
\* the complete set from before the replacement or the complete set after it.
C3_NoPartialSetVisible ==
  \A p \in Procs :
    LET d == DayOf(p)
        day == proc[p].day
    IN  /\ proc[p].pc = "InsertDurations"
             => durations[d] \in
                  {obs[p].before, Map(DurationColumns, NewDurations(day, proc[p].resp))}
        /\ proc[p].pc = "InsertProjectDurations"
             => project_durations[d] \in
                  {obs[p].before, Map(ProjectDurationColumns, proc[p].projectDurations)}
        /\ proc[p].pc = "InsertHeartbeats"
             => heartbeats[d] \in
                  {obs[p].before, Map(HeartbeatColumns, NewHeartbeats(day, proc[p].resp))}
        /\ proc[p].pc = "InsertDayStats"
             => << StatsOf(day_stats, d) >> \in
                  {obs[p].before,
                   << StatsOf(InsertDayStats({}, CollectStats(day, proc[p].resp[1])), d) >>}

\* no row occurs twice in s
NoDup(s) == \A i, j \in 1 .. Len(s) : s[i] = s[j] => i = j

\* C4: idempotence.  Once a fault-free SyncDay(d) that ran alone has completed, and
\* for as long as the upstream content of d stays as it is, every further
\* SyncDay(d) leaves the duration, heartbeat and day-stat rows of d as that run
\* left them, at every step and at its end, and no row is stored twice.
C4_Idempotence ==
  \A d \in Days :
    settled[d] # << >>
      => /\ DayRows(d) = settled[d][1].rows
         /\ NoDup(durations[d])
         /\ NoDup(heartbeats[d])

\* a second fault-free SyncDay(d) has completed on a day that has rows of all kinds
C4_SecondRunDone ==
  \E d \in Days :
    /\ settled[d] # << >>
    /\ settled[d][1].reruns = 1
    /\ durations[d] # << >>
    /\ heartbeats[d] # << >>
    /\ StatsOf(day_stats, d) # {}

\* C5: staleness skip.  When the count query of syncDurations finds at least as
\* many duration rows stored for the day as the upstream returned, syncDurations
\* returns at once: it goes to no delete, insert or per-project fetch and the
\* store stays as it is; the same for syncHeartbeats and the heartbeat rows.
C5_StalenessSkip ==
  [][\A p \in Procs :
       /\ ( /\ proc[p].pc = "CountDurationsByDay"
            /\ proc'[p] # proc[p]
            /\ CountDurationsByDay(durations, proc[p].day) >= Len(proc[p].resp) )
            => /\ proc'[p].pc = "GetHeartbeats"
               /\ store' = store
       /\ ( /\ proc[p].pc = "CountHeartbeatsByDay"
            /\ proc'[p] # proc[p]
            /\ CountHeartbeatsByDay(heartbeats, proc[p].day) >= Len(proc[p].resp) )
            => /\ proc'[p].pc = "RecordSuccess"
               /\ store' = store]_vars

\* syncDurations and syncHeartbeats have both skipped a day that has rows stored
C5_Skipped ==
  \E p \in Procs :
    /\ proc[p].pc = "RecordSuccess"
    /\ obs[p].skipped = {"durations", "heartbeats"}
    /\ durations[DayOf(p)] # << >>
    /\ heartbeats[DayOf(p)] # << >>

\* the grand total the upstream reports for day d (0 when it has no data)
SummaryTotal(d) ==
  IF Len(RemoteSummary(version[d])) = 0 THEN 0
  ELSE RemoteSummary(version[d])[1].GrandTotal

\* the upstream fetches after the summary step
LaterFetches == {"durations", "project", "heartbeats"}

\* C6: partial-failure tolerance.  A SyncDay(d) whose summary step succeeded with
\* total T and in which the durations fetch, a project-scoped fetch or the
\* heartbeats fetch failed (and no store statement did) returns no error, and at
\* its return the audit log entry of d is "success" with total_seconds = T.
C6_PartialFailureTolerance ==
  [][\A p \in Procs :
       ( /\ InSyncDay(p)
         /\ proc'[p].pc = "SyncDayReturned"
         /\ obs'[p].ufail \cap LaterFetches # {}
         /\ obs'[p].faults = {} )
         => /\ proc'[p].err = NoErr
            /\ LogOf(sync_log', DayOf(p)) =
                 {[day |-> DayOf(p), total_seconds |-> SummaryTotal(DayOf(p)),
                   status |-> "success"]}]_vars

\* a SyncDay in which a project-scoped fetch failed has returned, on a day with data
C6_ReturnedAfterFetchFailure ==
  \E p \in Procs :
    /\ proc[p].pc = "SyncDayReturned"
    /\ "project" \in obs[p].ufail
    /\ SummaryTotal(DayOf(p)) > 0
    /\ proc[p].err = NoErr

\* C7: fatal summary failure.  A SyncDay(d) whose upstream summary fetch failed
\* returns that error, has run neither the durations step nor the heartbeats
\* step, and (its audit write not failing) leaves d's audit log entry as "failed"
\* with total_seconds = 0, whatever the entry held before.
C7_FatalSummaryFailure ==
  [][\A p \in Procs :
       ( /\ InSyncDay(p)
         /\ proc'[p].pc = "SyncDayReturned"
         /\ "summary" \in obs'[p].ufail )
         => /\ proc'[p].err = UpstreamError
            /\ obs'[p].ran = {}
            /\ obs'[p].faults = {}
                 => LogOf(sync_log', DayOf(p)) =
                      {[day |-> DayOf(p), total_seconds |-> 0, status |-> "failed"]}]_vars

\* the schedule's second SyncDay of a day has returned after its summary fetch
\* failed: the entry was "success" before and is "failed" now
C7_FailedAfterSuccess ==
  /\ proc["sched"].pc = "SyncDayReturned"
  /\ fires = 1
  /\ "summary" \in obs["sched"].ufail
  /\ proc["trig"].pc = "idle"
  /\ calls = 0
  /\ LogOf(sync_log, DayOf("sched")) =
       {[day |-> DayOf("sched"), total_seconds |-> 0, status |-> "failed"]}

\* C8: a PersistenceError is always fatal.  Whenever a store operation failed
\* during SyncDay(d), SyncDay returns an error and d is not recorded as
\* "success"; whenever one failed during SyncProjects, SyncProjects returns an
\* error.
C8_PersistenceErrorFatal ==
  \A p \in Procs :
    /\ (proc[p].pc = "SyncDayReturned" /\ obs[p].faults # {})
         => /\ proc[p].err # NoErr
            /\ ~ IsDaySynced(sync_log, proc[p].day)
    /\ (proc[p].pc = "SyncProjectsReturned" /\ obs[p].faults # {})
         => proc[p].err # NoErr

\* the calendar days from a through b, ascending
DaysFromTo(a, b) == [i \in 1 .. (b - a + 1) |-> a + (i - 1)]

\* C9: range isolation.  When SyncDateRange(start, end), start not after end,
\* returns it has called SyncDay exactly once for every calendar day from start's
\* day through end's day, in ascending order, whatever failed on the way; with no
\* failure at all every day of the range is recorded as "success".
C9_RangeIsolation ==
  ( /\ proc["trig"].pc = "SyncDateRangeReturned"
    /\ ~ After(proc["trig"].start, proc["trig"].end) )
    => LET range == DaysFromTo(Format(proc["trig"].start), Format(proc["trig"].end))
       IN  /\ obs["trig"].called = range
           /\ failures = 0
                => \A i \in 1 .. Len(range) :
                     \E r \in LogOf(sync_log, range[i]) : r.status = "success"

\* C10: SyncDays(n).  When the day loop of SyncDays(n) is over it has called
\* SyncDay exactly once for each of the n calendar days that end with yesterday
\* (the day before the call), in order, and for no other day.
C10_SyncDaysLastN ==
  \A p \in Procs :
    (proc[p].pc = "GetProjects" /\ proc[p].job = "days")
      => obs[p].called =
           DaysFromTo(Format(proc[p].end) - proc[p].days + 1, Format(proc[p].end))

\* the seven stat types and the list of the remote summary each one is taken from
StatTypes == {"category", "language", "editor", "os", "project", "dependency", "machine"}

RemoteList(summary, type) ==
  CASE type = "category" -> summary.Categories
    [] type = "language" -> summary.Languages
    [] type = "editor" -> summary.Editors
    [] type = "os" -> summary.OperatingSystems
    [] type = "project" -> summary.Projects
    [] type = "dependency" -> summary.Dependencies
    [] type = "machine" -> summary.Machines

\* the (name, total) entries stored for day d and a type
StoredEntries(t, d, type) ==
  {[Name |-> r.name, TotalSeconds |-> r.total_seconds] :
     r \in {x \in t : x.day = d /\ x.type = type}}

\* C11: end-to-end summary sync.  When the summary step of a SyncDay(D) that runs
\* alone over an unchanged upstream has written the remote summary of D (as it
\* does when nothing is stored for D), the stored
\* day summary of D is the one row with the remote grand total, and for each of
\* the seven types the stored day stats of D are exactly the (name, total)
\* entries of the corresponding remote list.
C11_SummaryEndToEnd ==
  [][\A p \in Procs :
       /\ ( /\ proc[p].pc = "GetDaySummary"
            /\ GetDaySummary(day_summaries, proc[p].day) = {}
            /\ proc'[p] # proc[p] )
            => proc'[p].pc \in {"UpsertDaySummary", "RecordFailed"}
       /\ (proc[p].pc = "InsertDayStats" /\ proc'[p].pc = "GetDurations" /\ obs[p].pure)
         => LET summary == RemoteSummary(version[DayOf(p)])[1]
            IN  /\ GetDaySummary(day_summaries', proc[p].day) =
                     {[day |-> DayOf(p), total_seconds |-> summary.GrandTotal]}
                /\ \A type \in StatTypes :
                     StoredEntries(day_stats', DayOf(p), type) =
                       {RemoteList(summary, type)[i] :
                          i \in 1 .. Len(RemoteList(summary, type))}]_vars

\* the first SyncDay of the run has passed its summary step: nothing was stored
\* before it, and now stats of all seven types are
C11_FirstSummaryStored ==
  \E p \in Procs :
    /\ proc[p].pc = "GetDurations"
    /\ sync_log = {}
    /\ failures = 0
    /\ obs[p].pure
    /\ \A type \in StatTypes : StoredEntries(day_stats, DayOf(p), type) # {}

\* the positions of syncSummary at which it writes
SummaryWritePcs == {"UpsertDaySummary", "DeleteDayStatsByDay", "InsertDayStats"}

\* C12: summary staleness skip.  When syncSummary reads a stored day summary whose
\* total equals the remote grand total it returns that total with no error and
\* the store stays as it is; it goes on to write only when it read no stored day
\* summary or a different total, and the day_summaries and day_stats tables change
\* in no step but those writes.
C12_SummaryStalenessSkip ==
  [][/\ \A p \in Procs :
          ( /\ proc[p].pc = "GetDaySummary"
            /\ proc'[p] # proc[p]
            /\ obs'[p].faults = obs[p].faults )
            => LET existing == GetDaySummary(day_summaries, proc[p].day)
                   equal == \E r \in existing :
                              r.total_seconds = proc[p].resp[1].GrandTotal
               IN  /\ equal => /\ proc'[p].pc = "GetDurations"
                               /\ proc'[p].totalSeconds \in
                                    {r.total_seconds : r \in existing}
                               /\ store' = store
                   /\ proc'[p].pc \in SummaryWritePcs => ~ equal
     /\ (day_stats' # day_stats \/ day_summaries' # day_summaries)
          => \E p \in Procs : proc[p].pc \in SummaryWritePcs /\ proc'[p] # proc[p]]_vars

\* a SyncDay has skipped the summary writes of a day that has a day summary and
\* day stats stored, and goes on with the stored total
C12_SummarySkipped ==
  \E p \in Procs :
    /\ proc[p].pc = "GetDurations"
    /\ obs[p].before = << >>
    /\ proc[p].totalSeconds > 0
    /\ GetDaySummary(day_summaries, proc[p].day) =
         {[day |-> DayOf(p), total_seconds |-> proc[p].totalSeconds]}
    /\ StatsOf(day_stats, DayOf(p)) # {}

C14_KeyUniqueness ==
  /\ \A r1, r2 \in day_summaries : r1.day = r2.day => r1 = r2
  /\ \A r1, r2 \in sync_log : r1.day = r2.day => r1 = r2
  /\ \A r1, r2 \in day_stats :
       (r1.day = r2.day /\ r1.type = r2.type /\ r1.name = r2.name) => r1 = r2
  /\ \A r1, r2 \in projects : r1.uuid = r2.uuid => r1 = r2

\* the schedule's second SyncDay and a triggered run have both written: the same
\* keys were upserted more than once
C14_KeysWrittenTwice ==
  /\ proc["sched"].pc = "SyncDayReturned"
  /\ fires = 1
  /\ proc["trig"].pc = "SyncProjectsReturned"
  /\ DayOf("sched") \in {obs["trig"].called[i] : i \in 1 .. Len(obs["trig"].called)}
  /\ LogOf(sync_log, DayOf("sched")) # {}
  /\ GetDaySummary(day_summaries, proc["sched"].day) # {}
  /\ StatsOf(day_stats, DayOf("sched")) # {}
  /\ Cardinality(projects) = Len(RemoteProjects)

\* the audit status of day d
AuditStatus(t, d) ==
  IF LogOf(t, d) = {} THEN "NeverSynced"
  ELSE IF \E r \in LogOf(t, d) : r.status = "success" THEN "Succeeded"
  ELSE "Failed"

\* the audit status changes the claim lists, and the one it leaves out
ListedChanges ==
  {<< "NeverSynced", "Succeeded" >>, << "NeverSynced", "Failed" >>,
   << "Succeeded", "Failed" >>}
RetryChange == << "Failed", "Succeeded" >>

\* what a step may do to the audit status of the days, changes being those of
\* the set allowed: rows hold "success" or "failed"; the status of a day changes
\* only by an allowed change, to Failed only in the audit write of a SyncDay of
\* that day whose summary step failed and to Succeeded only in the audit write
\* of one whose summary step succeeded; and those writes, when they do not fail,
\* leave the day Failed and Succeeded
AuditStep(allowed) ==
  /\ \A r \in sync_log' : r.status \in {"success", "failed"}
  /\ \A d \in Days :
       LET a == AuditStatus(sync_log, d)
           b == AuditStatus(sync_log', d)
       IN  /\ a # b => << a, b >> \in allowed
           /\ (a # b /\ b = "Failed")
                => \E p \in Procs : /\ proc[p].pc = "RecordFailed"
                                    /\ DayOf(p) = d
                                    /\ proc'[p].pc = "SyncDayReturned"
           /\ (a # b /\ b = "Succeeded")
                => \E p \in Procs : /\ proc[p].pc = "RecordSuccess"
                                    /\ DayOf(p) = d
                                    /\ proc'[p].pc = "SyncDayReturned"
  /\ \A p \in Procs :
       (proc'[p].pc = "SyncDayReturned" /\ InSyncDay(p) /\ obs'[p].faults = {})
         => AuditStatus(sync_log', DayOf(p)) =
              IF proc[p].pc = "RecordFailed" THEN "Failed" ELSE "Succeeded"

\* C15: per-day audit state machine, as the claim lists it.  The audit status of
\* a day is NeverSynced, Succeeded or Failed and changes only from NeverSynced to
\* Succeeded, or from any state to Failed; nothing else is reachable.
C15_AuditStateMachine == [][AuditStep(ListedChanges)]_vars

\* C15, amended: the same, with the change from Failed to Succeeded on a SyncDay
\* whose summary step succeeds added to the listed ones.
C15_AuditStateMachineWithRetry == [][AuditStep(ListedChanges \cup {RetryChange})]_vars

\* a day recorded as Failed has been synced again and is recorded as Succeeded
C15_RetrySucceeded ==
  /\ proc["sched"].pc = "SyncDayReturned"
  /\ fires = 1
  /\ failures = 1
  /\ calls = 0
  /\ obs["sched"].ufail = {}
  /\ obs["sched"].faults = {}
  /\ AuditStatus(sync_log, DayOf("sched")) = "Succeeded"

\* the instants of day d
InstantsOf(d) == {d * TicksPerDay + k : k \in 0 .. TicksPerDay - 1}

\* the status of the latest RecordSync of day d that this step performs, if any
Recorded(d) ==
  {s \in {"success", "failed"} :
     \E p \in Procs :
       /\ proc[p].pc = (IF s = "success" THEN "RecordSuccess" ELSE "RecordFailed")
       /\ DayOf(p) = d
       /\ proc'[p].pc = "SyncDayReturned"
       /\ failures' = failures}

\* C16: audit reads.  After every RecordSync, IsDaySynced(d) is true exactly when
\* the latest RecordSync of day d recorded "success" (a day with a "failed" entry
\* and a day never attempted both give false, and a call for one day leaves the
\* answer for every other day as it was), and GetLastSyncedDay returns the
\* greatest day for which IsDaySynced is true, the zero time when there is none.
C16_AuditReads ==
  [][/\ \A d \in Days : \A i \in InstantsOf(d) :
          /\ Recorded(d) # {}
               => IsDaySynced(sync_log', i) = ("success" \in Recorded(d))
          /\ Recorded(d) = {}
               => IsDaySynced(sync_log', i) = IsDaySynced(sync_log, i)
          /\ LogOf(sync_log', d) = {} => ~ IsDaySynced(sync_log', i)
          /\ AuditStatus(sync_log', d) = "Failed" => ~ IsDaySynced(sync_log', i)
     /\ LET synced == {d \in Days : IsDaySynced(sync_log', d * TicksPerDay)}
            last == GetLastSyncedDay(sync_log')
        IN  /\ synced = {} <=> last = << >>
            /\ synced # {} => /\ last[1] \in synced
                              /\ \A d \in synced : d <= last[1]]_vars

\* an earlier day is recorded "success", a later one "failed": the last synced
\* day is the earlier one
C16_FailedAfterLastSynced ==
  \E d, e \in Days :
    /\ d < e
    /\ AuditStatus(sync_log, d) = "Succeeded"
    /\ AuditStatus(sync_log, e) = "Failed"
    /\ GetLastSyncedDay(sync_log) = << d >>
    /\ \E n \in Days : LogOf(sync_log, n) = {}

\* the types getRangeStats reads
RangeStatTypes == {"category", "language", "editor", "os", "project"}

\* C17: aggregation correctness.  For every stat type and range, the list that
\* GetAggregatedStats returned has one entry per distinct name that has a row of
\* that type within the range and no other entry, each entry's total is the sum
\* of that name's totals within the range, the entries come in descending order
\* of total, and the returned totals add up to the sum of the matching rows.
C17_AggregationCorrectness ==
  \A p \in Procs : proc[p].pc = "Replied" =>
    \A type \in RangeStatTypes :
      LET stats == proc[p].resp[1][type]
          rows == {r \in day_stats : /\ r.type = type
                                     /\ Format(proc[p].start) <= r.day
                                     /\ r.day <= Format(proc[p].end)}
          TotalOf(n) == LET mine == {r \in rows : r.name = n}
                        IN  Sum([r \in mine |-> r.total_seconds], mine)
      IN  /\ {stats[i].Name : i \in DOMAIN stats} = {r.name : r \in rows}
          /\ \A i, j \in DOMAIN stats : i # j => stats[i].Name # stats[j].Name
          /\ \A i \in DOMAIN stats : stats[i].TotalSeconds = TotalOf(stats[i].Name)
          /\ \A i, j \in DOMAIN stats :
               i < j => stats[i].TotalSeconds >= stats[j].TotalSeconds
          /\ Sum([i \in DOMAIN stats |-> stats[i].TotalSeconds], DOMAIN stats)
               = Sum([r \in rows |-> r.total_seconds], rows)

\* totals {A:100, B:300} over two days of the range, and a row of another type:
\* the read returned [B:300, A:100], of sum 400
C17_TwoNamesAggregated ==
  /\ proc["trig"].pc = "Replied"
  /\ proc["trig"].resp[1]["language"]
       = << [Name |-> "B", TotalSeconds |-> 300], [Name |-> "A", TotalSeconds |-> 100] >>
  /\ \E r \in day_stats : r.type = "project"
  /\ Cardinality({r.day : r \in {x \in day_stats : x.type = "language"}}) = 2

\* the instant a remote timestamp stands for, the zero time for a blank one
RemoteInstant(ts) == IF ts = "2024-01-02T03:04:05Z" THEN 1704164645 ELSE 0

\* C18: SyncProjects full overwrite.  When SyncProjects has returned nil, every
\* project of the remote list has exactly one stored row with its external id,
\* and the row's name, repository, badge, color, public-URL flag and first and
\* last heartbeat instants are those of the remote payload.
C18_SyncProjectsOverwrite ==
  \A p \in Procs :
    (proc[p].pc = "SyncProjectsReturned" /\ proc[p].err = NoErr) =>
      \A i \in DOMAIN RemoteProjects :
        LET remote == RemoteProjects[i]
            rows == {r \in projects : r.uuid = remote.ID}
        IN  /\ Cardinality(rows) = 1
            /\ \A r \in rows :
                 /\ r.name = remote.Name
                 /\ r.repository = remote.Repository
                 /\ r.badge = remote.Badge
                 /\ r.color = remote.Color
                 /\ r.has_public_url = remote.HasPublicURL
                 /\ r.last_heartbeat_at = RemoteInstant(remote.LastHeartbeatAt)
                 /\ r.first_heartbeat_at = RemoteInstant(remote.FirstHeartbeatAt)

\* C19: fire-and-forget trigger.  When the background run of a trigger request
\* with day count n is over, it has called SyncDay for each of the last n days
\* ending yesterday and each of those days has an audit-log entry.
C19_TriggerLeavesAuditEntries ==
  \A p \in Procs :
    (proc[p].pc = "SyncProjectsReturned" /\ proc[p].job = "days")
      => \A d \in (Format(proc[p].end) - proc[p].days + 1) .. Format(proc[p].end) :
           /\ \E i \in DOMAIN obs[p].called : obs[p].called[i] = d
           /\ LogOf(sync_log, d) # {}

\* C20: validation before access.  A range read request reaches the store reads
\* only with dates that parsed and a range that is not inverted: a request with
\* start after end has been rejected before.
C20_ValidationBeforeAccess ==
  \A p \in Procs :
    (proc[p].job = "getRangeStats" /\ proc[p].pc \in {"GetAggregatedStats", "Replied"})
      => ~ After(proc[p].start, proc[p].end)

\* C21: cancellation between days.  Once Stop has been called, the day loop of a
\* running SyncDays or SyncDateRange calls SyncDay for no further day.
C21_CancellationBetweenDays ==
  [][\A p \in Procs :
       ( /\ syncer.stopped
         /\ proc[p].pc = "SyncDayReturned"
         /\ proc[p].job \in {"days", "range"} )
         => proc'[p].pc # "GetSummaries"]_vars

\* the project names of the payloads, in lexicographic order
NamesInOrder == << "a", "b" >>
Rank(name) == CHOOSE i \in DOMAIN NamesInOrder : NamesInOrder[i] = name

\* C22: deterministic project fetch order.  The project-scoped fetches of a
\* syncDurations are issued in lexicographic order of the project names, so the
\* merged batch of project durations holds the projects' rows in that order.
C22_ProjectFetchOrder ==
  \A p \in Procs :
    LET batch == proc[p].projectDurations
    IN  \A i, j \in DOMAIN batch :
          i < j => Rank(batch[i].Project) <= Rank(batch[j].Project)

\* the rows of a batch of project durations that belong to a project
RowsOfProject(batch, project) == SelectSeq(batch, LAMBDA r : r.Project = project)

\* C23: per-project failure isolation.  In a syncDurations that has replaced the
\* day's durations, a project-scoped fetch that fails only drops that project:
\* the loop goes on with the batch as it was.  The batch that is written holds,
\* for each project of the day, either the rows its fetch returned or (the fetch
\* having failed or returned nothing) no row, and after the insert the day's
\* project durations are exactly that batch.  The day's project durations are
\* written only in a delete or insert of a non-empty batch.
C23_ProjectFailureIsolation ==
  [][/\ \A p \in Procs :
          LET d == DayOf(p)
              batch == proc[p].projectDurations
          IN  /\ ( /\ proc[p].pc = "GetDurationsWithProject"
                   /\ "project" \in obs'[p].ufail \ obs[p].ufail )
                   => /\ proc'[p].projectDurations = batch
                      /\ Cardinality(proc[p].projects \ proc'[p].projects) = 1
                      /\ proc'[p].pc =
                           IF Cardinality(proc[p].projects) > 1
                           THEN "GetDurationsWithProject"
                           ELSE IF Len(batch) > 0 THEN "DeleteProjectDurationsByDay"
                           ELSE "GetHeartbeats"
              /\ ( /\ proc[p].pc = "InsertProjectDurations"
                   /\ proc'[p].pc # "InsertProjectDurations"
                   /\ failures' = failures )
                   => /\ project_durations'[d] = Map(ProjectDurationColumns, batch)
                      /\ Len(batch) > 0
                      /\ \A i \in DOMAIN batch :
                           \E v \in InitVersion(d) .. version[d] :
                             LET n == batch[i].Project
                             IN  /\ n \in ProjectNames(RemoteDurations(v))
                                 /\ RowsOfProject(batch, n) =
                                      NewProjectDurations(proc[p].day, n,
                                        RemoteDurationsWithProject(v, n))
                      /\ (\E n \in ProjectNames(RemoteDurations(version[d])) :
                            /\ RowsOfProject(batch, n) = << >>
                            /\ RemoteDurationsWithProject(InitVersion(d), n) # << >>)
                           => "project" \in obs[p].ufail
     /\ \A e \in Days :
          project_durations'[e] # project_durations[e]
            => \E q \in Procs :
                 /\ proc[q].pc \in {"DeleteProjectDurationsByDay", "InsertProjectDurations"}
                 /\ DayOf(q) = e
                 /\ Len(proc[q].projectDurations) > 0]_vars

\* of a day's two projects one fetch failed: the day holds the other's rows only
C23_OneProjectStored ==
  \E p \in Procs :
    /\ proc[p].pc = "GetHeartbeats"
    /\ "project" \in obs[p].ufail
    /\ Cardinality(ProjectNames(RemoteDurations(version[DayOf(p)]))) = 2
    /\ Len(project_durations[DayOf(p)]) = 1

\* the statements of SyncDay in the order of the code, and the ones that call
\* the upstream service
SyncDayOrder ==
  << "GetSummaries", "GetDaySummary", "UpsertDaySummary", "DeleteDayStatsByDay",
     "InsertDayStats", "GetDurations", "CountDurationsByDay", "DeleteDurationsByDay",
     "InsertDurations", "GetDurationsWithProject", "DeleteProjectDurationsByDay",
     "InsertProjectDurations", "GetHeartbeats", "CountHeartbeatsByDay",
     "DeleteHeartbeatsByDay", "InsertHeartbeats", "RecordSuccess", "RecordFailed",
     "SyncDayReturned" >>
PlaceOf(pc) == CHOOSE i \in DOMAIN SyncDayOrder : SyncDayOrder[i] = pc
EndpointCalls == {"GetSummaries", "GetDurations", "GetHeartbeats"}

\* C24: no retry, sequential upstream calls.  A SyncDay only moves forward
\* through its statements, one at a time: it leaves the summary, durations and
\* heartbeats calls for a later statement whether they failed or not, so each is
\* made at most once, and every project-scoped call takes one more project off
\* the ones still to fetch, so each project is fetched at most once.
C24_NoRetrySequentialCalls ==
  [][\A p \in Procs :
       (InSyncDay(p) /\ proc'[p] # proc[p])
         => /\ proc'[p].pc \in SyncDayPcs \cup {"SyncDayReturned"}
            /\ PlaceOf(proc'[p].pc) >= PlaceOf(proc[p].pc)
            /\ proc[p].pc \in EndpointCalls
                 => PlaceOf(proc'[p].pc) > PlaceOf(proc[p].pc)
            /\ proc[p].pc = "GetDurationsWithProject"
                 => /\ Cardinality(proc[p].projects) > 0
                    /\ \/ /\ proc'[p].pc = "GetDurationsWithProject"
                          /\ proc'[p].projects \subseteq proc[p].projects
                          /\ Cardinality(proc'[p].projects)
                               = Cardinality(proc[p].projects) - 1
                       \/ /\ PlaceOf(proc'[p].pc) > PlaceOf("GetDurationsWithProject")
                          /\ Cardinality(proc[p].projects) = 1
            /\ proc[p].pc # "GetDurationsWithProject"
                 => proc'[p].pc # proc[p].pc]_vars

\* a SyncDay whose durations call failed has returned
C24_ReturnedAfterDurationsFailure ==
  \E p \in Procs :
    /\ proc[p].pc = "SyncDayReturned"
    /\ "durations" \in obs[p].ufail
    /\ proc[p].err = NoErr

\* the rows of the store that day e owns
RowsOwnedBy(dur, pdur, hb, sums, stats, log, e) ==
  [durations |-> dur[e], project_durations |-> pdur[e], heartbeats |-> hb[e],
   day_summaries |-> {r \in sums : r.day = e}, day_stats |-> {r \in stats : r.day = e},
   sync_log |-> {r \in log : r.day = e}]

\* C25: day-locality.  A step of SyncDay(d) leaves the durations, project
\* durations, heartbeats, day summary, day stats and audit entry of every other
\* day, and the projects, exactly as they were, whether it succeeds or fails.
C25_DayLocality ==
  [][\A p \in Procs :
       (InSyncDay(p) /\ proc'[p] # proc[p])
         => /\ \A e \in Days \ {DayOf(p)} :
                 RowsOwnedBy(durations', project_durations', heartbeats',
                             day_summaries', day_stats', sync_log', e)
                   = RowsOwnedBy(durations, project_durations, heartbeats,
                                 day_summaries, day_stats, sync_log, e)
            /\ projects' = projects
            /\ \A r \in (day_summaries' \cup day_stats' \cup sync_log') :
                 r.day \in Days]_vars

\* a SyncDay has stored the data of its day while a later day holds data too
C25_TwoDaysStored ==
  \E p \in Procs : \E e \in Days :
    /\ proc[p].pc = "SyncDayReturned"
    /\ DayOf(p) < e
    /\ durations[DayOf(p)] # << >>
    /\ StatsOf(day_stats, DayOf(p)) # {}
    /\ durations[e] # << >>
    /\ StatsOf(day_stats, e) # {}
    /\ heartbeats[e] # << >>


\* the reply a caller of GetYearlyActivity holds
YearlyReply(p) == proc[p].resp[1]

\* the days of year y that have a day_summaries row
SummarizedDays(y) == {r.day : r \in SummariesOfYear(day_summaries, y)}

\* C26: yearly activity merge.  GetYearlyActivity(y) returns exactly one entry per
\* day of year y that has a DaySummary row, in ascending date order, each keyed by
\* the 10-character date, carrying that day's stored total and the day's project
\* DayStat rows in descending total order; project rows of a day with no
\* DaySummary row are omitted and days outside year y never appear.
C26_YearlyActivityMerge ==
  \A p \in Procs :
    (proc[p].pc = "Replied" /\ proc[p].job = "GetYearlyActivity") =>
      LET y == YearlyReply(p).year
          result == YearlyReply(p).result
      IN  /\ Len(result) = Cardinality(SummarizedDays(y))
          /\ {result[i].Date : i \in DOMAIN result}
               = {[date |-> d, rest |-> ""] : d \in SummarizedDays(y)}
          /\ \A i, j \in DOMAIN result : i < j => result[i].Date.date < result[j].Date.date
          /\ \A i \in DOMAIN result :
               LET d == result[i].Date.date
                   rows == {r \in day_stats : r.day = d /\ r.type = "project"}
                   listed == result[i].Projects
               IN  /\ \E r \in day_summaries :
                        r.day = d /\ r.total_seconds = result[i].TotalSeconds
                   /\ Len(listed) = Cardinality(rows)
                   /\ {listed[k] : k \in DOMAIN listed}
                        = {[Name |-> r.name, TotalSeconds |-> r.total_seconds] : r \in rows}
                   /\ \A k, l \in DOMAIN listed :
                        k < l => listed[k].TotalSeconds >= listed[l].TotalSeconds

\* a reply for 2024 with two days, one of them with two projects of different
\* totals, while a project row of a day without summary and a summary of a day
\* outside 2024 are stored
C26_TwoDaysMerged ==
  /\ proc["trig"].pc = "Replied"
  /\ proc["trig"].job = "GetYearlyActivity"
  /\ YearlyReply("trig").year = 2024
  /\ Len(YearlyReply("trig").result) = 2
  /\ \E i \in DOMAIN YearlyReply("trig").result :
       LET listed == YearlyReply("trig").result[i].Projects
       IN  Len(listed) = 2 /\ listed[1].TotalSeconds > listed[2].TotalSeconds
  /\ \E r \in day_stats :
       /\ r.type = "project" /\ r.day >= Jan1(2024) /\ r.day <= Dec31(2024)
       /\ r.day \notin SummarizedDays(2024)
  /\ \E r \in day_summaries : r.day < Jan1(2024) \/ r.day > Dec31(2024)


\* day d has a "success" audit entry and the rows of its upstream content
Recovered(d) ==
  /\ \E r \in LogOf(sync_log, d) : r.status = "success"
  /\ Len(durations[d]) = Len(RemoteDurations(version[d]))
  /\ Len(heartbeats[d]) = Len(RemoteHeartbeats(version[d]))

\* the scheduled sync of day d has just returned with a "failed" audit entry, or
\* with a step of durations or heartbeats failed
ScheduledSyncFell(d) ==
  /\ proc["sched"].pc = "SyncDayReturned"
  /\ proc["sched"].job = "yesterday"
  /\ DayOf("sched") = d
  /\ \/ \E r \in LogOf(sync_log, d) : r.status = "failed"
     \/ obs["sched"].ufail \cap {"durations", "heartbeats"} # {}

\* C27: recovery by the next scheduled run.  If the scheduled sync of day d ends
\* with a "failed" audit entry, or with durations or heartbeats missing because
\* their step failed, then, the upstream healthy again and a firing of the
\* schedule still to come, d eventually has a "success" audit entry with its data
\* stored.
C27_RecoveryByNextRun ==
  \A d \in Days :
    (ScheduledSyncFell(d) /\ failures = MaxFailures /\ fires < MaxFires) ~> Recovered(d)


\* the scheduler's goroutine waits for a firing of the schedule it armed
Armed == proc["sched"].pc \in {"cron", "ticker"}

\* C28: automatic daily sync.  StartScheduler first runs one sync of yesterday and
\* only then arms the recurring schedule: the started cron, or the 24-hour ticker
\* when the schedule is not a cron expression; from then on every firing starts a
\* sync of the then-current yesterday.
C28_AutomaticDailySync ==
  [][/\ proc["sched"].pc = "StartScheduler" /\ proc'["sched"] # proc["sched"]
          => /\ proc'["sched"].pc = "GetSummaries"
             /\ proc'["sched"].job = "yesterday"
             /\ proc'["sched"].day = AddDate(clock', -1)
             /\ syncer'.cron = "nil"
     /\ (syncer.cron = "nil" /\ syncer'.cron # "nil") \/ (~ Armed /\ Armed')
          => /\ proc["sched"].pc = "SyncDayReturned"
             /\ proc["sched"].job = "yesterday"
             /\ \/ proc'["sched"].pc = "cron" /\ syncer'.cron \in {"running", "stopped"}
                \/ proc'["sched"].pc = "ticker" /\ syncer'.cron = "new"
     /\ (Armed /\ proc'["sched"] # proc["sched"])
          => /\ proc'["sched"].pc = "GetSummaries"
             /\ proc'["sched"].job = "yesterday"
             /\ proc'["sched"].day = AddDate(clock', -1)
             /\ fires' = fires + 1]_vars

\* the 24-hour ticker has fired and its sync of yesterday is under way
C28_TickerSyncUnderWay ==
  /\ syncer.cron = "new"
  /\ fires = 1
  /\ InSyncDay("sched")
  /\ proc["sched"].day = AddDate(clock, -1)


\* C29: Stop ends scheduling.  After Stop() has returned no new scheduled sync of
\* yesterday begins: no firing of the cron or of the 24-hour ticker starts a
\* sync, whether Stop came during the startup sync, before the cron was created
\* or started, or in the ticker fallback mode.
C29_StopEndsScheduling ==
  [][syncer.stopped => ~ (Armed /\ proc'["sched"].pc = "GetSummaries")]_vars


\* the day_stats rows of day d are those built from a remote summary of grand
\* total T, for every total T the day_summaries row of d holds
SummaryMatchesStats(d) ==
  \A r \in GetDaySummary(day_summaries, d * TicksPerDay) :
    \E v \in 1 .. (1 + MaxChanges) :
      /\ RemoteSummary(v)[1].GrandTotal = r.total_seconds
      /\ StatsOf(day_stats, d) =
           InsertDayStats({}, CollectStats(d * TicksPerDay, RemoteSummary(v)[1]))

\* C30: summary/stats consistency.  With no sync in progress, the DayStat rows of
\* a day d whose DaySummary row holds total T are exactly those built from a
\* remote summary of grand total T; at the latest this holds again once a later
\* SyncDay(d) that met no fault has returned without error and no other sync is
\* in progress.
C30_SummaryStatsConsistency ==
  \A p \in Procs :
    ( /\ proc[p].pc = "SyncDayReturned"
      /\ proc[p].err = NoErr
      /\ obs[p].faults = {} /\ obs[p].ufail = {}
      /\ \A q \in Procs \ {p} : ~ InFlight(q) )
      => SummaryMatchesStats(DayOf(p))


\* C31: the audit total agrees with the stored summary.  After any sequence of
\* sequential SyncDay executions, whenever the audit entry of day d has status
\* "success" and a DaySummary row exists for d, the entry's total_seconds is the
\* DaySummary total of d, also when the upstream returns no summary data for a
\* day that was synced before.  Stated for the executions in which no upstream
\* call and no store statement has failed.
C31_AuditTotalAgrees ==
  (failures = 0 /\ \A p \in Procs : ~ InFlight(p)) =>
    \A d \in Days :
      \A r \in LogOf(sync_log, d), x \in GetDaySummary(day_summaries, d * TicksPerDay) :
        r.status = "success" => r.total_seconds = x.total_seconds


\* C32: no duplication under racing syncs.  For any interleaving of two SyncDay(d)
\* executions running at the same time, the scheduled run and a manual trigger,
\* against an upstream that returns the same n durations and m heartbeats to
\* both, the store holds at most n Duration rows and at most m HeartBeat rows of
\* day d, none of them twice.
C32_NoDuplicationUnderRace ==
  \A d \in Days :
    /\ Len(durations[d]) <= Len(RemoteDurations(version[d]))
    /\ Len(heartbeats[d]) <= Len(RemoteHeartbeats(version[d]))
    /\ NoDup(durations[d])
    /\ NoDup(heartbeats[d])


\* C33: ProjectDuration recovery.  When the project-scoped fetch of a project P
\* failed, or the ProjectDuration replace failed, in a SyncDay(d) that replaced
\* the Duration rows of d, a later SyncDay(d) that runs alone with a healthy
\* upstream, a healthy store and unchanged remote durations stores the
\* ProjectDuration rows of P for d: when such a run has returned, every project of
\* the remote durations of d has its rows stored.
C33_ProjectDurationRecovery ==
  [][\A p \in Procs :
       ( /\ proc[p].pc = "RecordSuccess"
         /\ proc'[p].pc = "SyncDayReturned"
         /\ obs[p].pure )
         => \A project \in ProjectNames(RemoteDurations(version[DayOf(p)])) :
              RemoteDurationsWithProject(version[DayOf(p)], project) # << >>
                => \E i \in DOMAIN project_durations'[DayOf(p)] :
                     project_durations'[DayOf(p)][i].project = project]_vars


\* C34: trigger authorisation.  A trigger request whose supplied API key differs
\* from the configured key is rejected as unauthorized, starts no background
\* sync, makes no upstream call and changes no stored row, the audit log
\* included.
C34_TriggerAuthorisation ==
  [][/\ proc["trig"].pc = "triggerSync"
          => LET r == proc["trig"].resp[1]
                 supplied == IF r.api_key # "" THEN r.api_key ELSE r.apiKey
             IN  supplied # "waka_key"
                   => /\ proc'["trig"].pc = "Unauthorized"
                      /\ UNCHANGED << store, version, obs, calls, failures, clock >>
     /\ proc["trig"].pc = "Unauthorized"
          => /\ proc'["trig"] = IdleProc
             /\ UNCHANGED << store, version, obs, calls, failures, clock >>]_vars

\* a request with the wrong key in its form was rejected while rows of an
\* earlier sync are stored
C34_RejectedOverStoredRows ==
  /\ proc["trig"].pc = "Unauthorized"
  /\ proc["trig"].resp[1].api_key = ""
  /\ proc["trig"].resp[1].apiKey = "other"
  /\ sync_log # {}
  /\ day_stats # {}


\* C35: a failed summary fetch keeps the stored data.  A SyncDay(d) whose upstream
\* summary fetch fails changes nothing but the audit entry of d: at each of its
\* steps the Duration, ProjectDuration, HeartBeat, DaySummary and DayStat rows,
\* those of d from an earlier successful sync among them, the projects and the
\* audit entries of the other days stay exactly as they were.
C35_FailedSummaryKeepsData ==
  [][\A p \in Procs :
       (InSyncDay(p) /\ "summary" \in obs'[p].ufail)
         => /\ UNCHANGED << durations, project_durations, heartbeats, day_summaries,
                            day_stats, projects >>
            /\ \A e \in Days \ {DayOf(p)} : LogOf(sync_log', e) = LogOf(sync_log, e)]_vars

\* a SyncDay of a day that has rows of every kind from an earlier successful sync
\* has returned after its summary fetch failed
C35_FailedOverStoredDay ==
  \E p \in Procs :
    /\ proc[p].pc = "SyncDayReturned"
    /\ "summary" \in obs[p].ufail
    /\ durations[DayOf(p)] # << >>
    /\ project_durations[DayOf(p)] # << >>
    /\ heartbeats[DayOf(p)] # << >>
    /\ GetDaySummary(day_summaries, proc[p].day) # {}
    /\ StatsOf(day_stats, DayOf(p)) # {}
    /\ \E r \in LogOf(sync_log, DayOf(p)) : r.status = "failed"


\* C36: the progress signal is monotone.  Over any sequence of SyncDay, SyncDays
\* and SyncDateRange executions the value returned by GetLastSyncedDay never moves
\* to an earlier day (nor back to the zero time), and a day for which IsDaySynced
\* has returned true keeps returning true.
C36_ProgressMonotone ==
  [][/\ GetLastSyncedDay(sync_log) # << >>
          => /\ GetLastSyncedDay(sync_log') # << >>
             /\ GetLastSyncedDay(sync_log')[1] >= GetLastSyncedDay(sync_log)[1]
     /\ \A d \in Days :
          IsDaySynced(sync_log, d * TicksPerDay) => IsDaySynced(sync_log', d * TicksPerDay)]_vars

====
